---- MODULE Spec2Model ----
(***************************************************************************)
(* A model of the interactive shell of this repository: the session state  *)
(* (history, last-appended index, files), the read-eval cycle, and the     *)
(* pipeline orchestrator in its three snapshots:                           *)
(*   "main" : src/app/main.ts         (monolith, module-global state)      *)
(*   "cb"   : src/app/pipeline.ts:278 (callback version, replCallback)     *)
(*   "rx"   : src/app/pipeline.ts:1   (reactive version, Observables)      *)
(* Every action is one event-loop callback run to completion.              *)
(***************************************************************************)
EXTENDS Integers, Sequences, FiniteSets, Bags, TLC

\* ---------------------------------------------------------------- bounds
\* input lines read in one session
MaxLines == 2
\* stages of one pipeline (at least 2: a pipeline has one "|" or more)
MaxStages == 3
\* stages of one pipeline that are `type` lookups of an external name
MaxTypeStages == 1

\* ------------------------------------------------------- JavaScript values
\* the value of an out-of-range array index
UNDEF == "undefined"

\* parts[i] of JavaScript, 1-based here: UNDEF past the end
At(s, i) == IF i >= 1 /\ i <= Len(s) THEN s[i] ELSE UNDEF

\* if (x) on a string or undefined
Truthy(t) == t # UNDEF /\ t # ""

\* cmd.slice(1)
Rest(s) == IF Len(s) <= 1 THEN <<>> ELSE SubSeq(s, 2, Len(s))

\* commandHistory.slice(lastAppendedIndex)
SliceFrom(s, i) == IF i >= Len(s) THEN <<>> ELSE SubSeq(s, i + 1, Len(s))

\* ------------------------------------------------------------ environment
\* The directories PATH may list and what fs.statSync finds in them.
\* "ls" is installed twice (as with /usr/bin and /bin), "cat" once; "bad" is
\* a regular file with an execute bit that the kernel refuses to run; "warn"
\* writes to both of its output streams and "big" writes more than one
\* buffer holds.  In d1 "data" is a regular file without an execute bit and
\* "sub" a directory; d2 holds an executable file of either name.
Dirs == {"d1", "d2"}

\* fs.statSync(path.join(dir, name)): "x" a regular file with an execute bit,
\* "file" a regular file without one, "dir" a directory, "missing" a throw
statSync(dir, name) ==
    CASE dir = "d1" /\ name \in {"ls", "bad"} -> "x"
      [] dir = "d1" /\ name = "data" -> "file"
      [] dir = "d1" /\ name = "sub" -> "dir"
      [] dir = "d2" /\ name \in {"ls", "cat", "warn", "big", "data", "sub"} -> "x"
      [] OTHER -> "missing"

\* stats.isFile() && (stats.mode & 0o111), inside the try block
Installed(dir, name) == statSync(dir, name) = "x"

\* process.env.PATH?.split(path.delimiter) || [] : unset, or both directories
PathChoices == {<<>>, <<"d1", "d2">>}

\* what an external program does with its standard input
ReadsStdin(name) == name = "cat"

\* the regular files of the model: "f" is the one the history commands are
\* given, "o" the one the redirections are given
FileNames == {"f", "o"}

\* a path that is a directory: fs.readFile, fs.writeFile and fs.appendFile on
\* it throw (EISDIR)
DirNames == {"d"}

\* ------------------------------------------------------------------ text
\* A text is a sequence of lines; the empty string is <<>>.  A line is a
\* record [t, a]: the kind of line and the strings it is built from.
Line(t, a) == [t |-> t, a |-> a]

EchoText(args) == << Line("echo", args) >>
TypeBuiltinText(name) == << Line("is a shell builtin", <<name>>) >>
TypeIsText(name, dir) == << Line("is", <<name, dir>>) >>
TypeNotFoundText(name) == << Line("not found", <<name>>) >>
CommandNotFoundText(name) == << Line("command not found", <<name>>) >>
PwdText(dir) == << Line("cwd", <<dir>>) >>
LsText == << Line("listing", <<"x">>), Line("listing", <<"y">>) >>

\* ----------------------------------------------------------- conversions
\* Number.NaN, the value of parseInt on a token without leading digits
NaN == -1000

\* parseInt(tok, 10) on the numeric tokens of the model
parseInt(tok) ==
    CASE tok = "0" -> 0
      [] tok = "1" -> 1
      [] tok = "2" -> 2
      [] tok = "3" -> 3
      [] tok = "7" -> 7
      [] OTHER -> NaN

\* Math.max(0, x): NaN when x is NaN
\* the output spawnSync hands back of a piped stream: no more than maxBuffer
\* (counted in lines here), the child being killed when it writes more
maxBuffer == 1

spawnSyncCapture(text) == IF Len(text) > maxBuffer THEN SubSeq(text, 1, maxBuffer) ELSE text

MathMax0(x) == IF x = NaN THEN NaN ELSE IF x > 0 THEN x ELSE 0

\* A history file is a sequence of lines, each ended by "\n".  A line is the
\* history entry it holds, and 0 when it is blank.
BlankLine == 0

\* line.trim() !== ''
NonBlank(line) == line # BlankLine

\* entries.join('\n') + '\n' : one line per entry, and of no entry at all
\* the lone "\n", a blank line
joinLines(entries) == IF entries = <<>> THEN << BlankLine >> ELSE entries

\* the split without the filter
splitLines(fileContent) == fileContent \o << BlankLine >>

\* fileContent.split('\n').filter(line => line.trim() !== '') : the split
\* yields the lines and the empty string behind the last "\n"
splitNonBlank(fileContent) == SelectSeq(fileContent \o << BlankLine >>, NonBlank)

\* the listing numbered from 1 instead of by the place in the whole history
historyTextRenumbered(history, arg) ==
    LET limit == IF Truthy(arg) THEN parseInt(arg) ELSE Len(history)
        startIndex == IF limit = NaN THEN NaN ELSE MathMax0(Len(history) - limit)
    IN  IF startIndex = NaN THEN <<>>
        ELSE [k \in 1..(Len(history) - startIndex) |->
                 Line("entry", << k, history[startIndex + k] >>)]

\* the listing of history [n]: limit, startIndex and the loop
historyText(history, arg) ==
    LET limit == IF Truthy(arg) THEN parseInt(arg) ELSE Len(history)
        startIndex == IF limit = NaN THEN NaN ELSE MathMax0(Len(history) - limit)
    IN  IF startIndex = NaN THEN <<>>
        ELSE [k \in 1..(Len(history) - startIndex) |->
                 Line("entry", << startIndex + k, history[startIndex + k] >>)]

\* the redirection operators
RedirectOps == {">", "1>", ">>", "1>>", "2>", "2>>"}

\* the scan honouring the last operator token instead of the first
parseRedirectionLast(parts) ==
    LET ops == {i \in 1..Len(parts) : parts[i] \in RedirectOps}
        none == [cmdParts |-> parts, redirectFile |-> "", appendFile |-> "",
                 stderrRedirectFile |-> "", stderrAppendFile |-> ""]
    IN  IF ops = {} THEN none
        ELSE LET i == CHOOSE k \in ops : \A j \in ops : k >= j
                 target == At(parts, i + 1)
                 cut == [none EXCEPT !.cmdParts = SubSeq(parts, 1, i - 1)]
             IN  CASE parts[i] \in {">", "1>"} -> [cut EXCEPT !.redirectFile = target]
                   [] parts[i] \in {">>", "1>>"} -> [cut EXCEPT !.appendFile = target]
                   [] parts[i] = "2>" -> [cut EXCEPT !.stderrRedirectFile = target]
                   [] OTHER -> [cut EXCEPT !.stderrAppendFile = target]

\* parseRedirection(parts), and the same scan at the head of repl in main.ts:
\* the loop breaks at the first operator token
parseRedirection(parts) ==
    LET ops == {i \in 1..Len(parts) : parts[i] \in RedirectOps}
        none == [cmdParts |-> parts, redirectFile |-> "", appendFile |-> "",
                 stderrRedirectFile |-> "", stderrAppendFile |-> ""]
    IN  IF ops = {} THEN none
        ELSE LET i == CHOOSE k \in ops : \A j \in ops : k <= j
                 target == At(parts, i + 1)
                 cut == [none EXCEPT !.cmdParts = SubSeq(parts, 1, i - 1)]
             IN  CASE parts[i] \in {">", "1>"} -> [cut EXCEPT !.redirectFile = target]
                   [] parts[i] \in {">>", "1>>"} -> [cut EXCEPT !.appendFile = target]
                   [] parts[i] = "2>" -> [cut EXCEPT !.stderrRedirectFile = target]
                   [] OTHER -> [cut EXCEPT !.stderrAppendFile = target]

\* ------------------------------------------------------------ resolution
Builtins == {"echo", "exit", "type", "pwd", "cd", "history"}

isBuiltin(cmd) == cmd \in Builtins

\* the loop without the test of isFile() and of the mode: the first directory
\* in which the stat succeeds
FirstMatchAnyKind(dirs, cmd) ==
    LET found == {i \in 1..Len(dirs) : statSync(dirs[i], cmd) # "missing"} IN
    IF found = {} THEN ""
    ELSE dirs[CHOOSE i \in found : \A j \in found : i <= j]

RECURSIVE FirstMatch(_, _)
\* the for loop over pathDirs: the first directory that holds a regular
\* file `cmd` with an execute bit, "" (null) when none does
FirstMatch(dirs, cmd) ==
    IF dirs = <<>> THEN ""
    ELSE IF Installed(Head(dirs), cmd) THEN Head(dirs)
    ELSE FirstMatch(Tail(dirs), cmd)

\* findCommand: the directory of the first match, "" for null, and "throw"
\* when path.join(dir, cmd) is handed an undefined cmd: the call stands
\* outside the try block and raises a TypeError in the first iteration
findCommand(dirs, cmd) ==
    IF dirs # <<>> /\ cmd = UNDEF THEN "throw" ELSE FirstMatch(dirs, cmd)

\* ------------------------------------------------------------ the lines
\* The stages the model's pipelines are built from.
StageCmds ==
    { <<"echo", "hi">>, <<"pwd">>, <<"history", "-a", "f">>, <<"type", "ls">>,
      <<"cat">>, <<"ls">>, <<"bad">>, <<"nosuch">>, <<>> }

RECURSIVE JoinStages(_)
\* the token list of a pipeline: its stages with a "|" token between them
JoinStages(cs) ==
    IF Len(cs) = 1 THEN Head(cs) ELSE Head(cs) \o <<"|">> \o JoinStages(Tail(cs))

\* pipelines whose stages carry redirection operator tokens
RedirectPipelines ==
    { JoinStages(<< <<"echo", "hi", ">", "o">>, <<"cat">> >>),
      JoinStages(<< <<"ls", ">", "o">>, <<"cat">> >>),
      JoinStages(<< <<"ls">>, <<"echo", "hi", ">>", "o">> >>),
      JoinStages(<< <<"echo", "hi">>, <<"ls", "2>", "o">> >>) }

PipelineLines ==
    RedirectPipelines \cup
    UNION { {JoinStages(cs) :
               cs \in {c \in [1..n -> StageCmds] :
                          Cardinality({i \in 1..n : c[i] = <<"type", "ls">>}) <= MaxTypeStages}} :
            n \in 2..MaxStages }

\* the single commands each snapshot is given
SingleLines(im) ==
    CASE im = "main" ->
           { <<>>, <<"exit">>, <<"echo", "hi">>, <<"history", "-a", "f">>, <<"type">>,
             <<"cd">>, <<"nosuch">>, <<"ls">>, <<"bad">>,
             <<"type", "echo">>, <<"type", "ls">>, <<"type", "nosuch">> }
      [] im = "rx" ->
           { <<"echo", "hi">>, <<"history", "-a", "f">>,
             <<"type", "echo">>, <<"type", "ls">>, <<"type", "nosuch">> }
      [] OTHER -> {}

\* the lines that change what a later line finds (history, index, files)
SessionLines(im) ==
    (SingleLines(im) \cap { <<>>, <<"echo", "hi">>, <<"history", "-a", "f">> })
    \cup { <<"echo", "hi", "|", "history", "-a", "f">>,
           <<"ls", "|", "history", "-a", "f">>,
           <<"history", "-a", "f", "|", "ls">> }

\* The n-th line of a session.  A line acts on a later one only through the
\* session state, so the lines before the last are drawn from SessionLines
\* and the last one from every line of the model.
Lines(im, n) ==
    IF n < MaxLines THEN SessionLines(im) ELSE SingleLines(im) \cup PipelineLines

RECURSIVE splitIntoCommands(_)
\* the stages of a token list: the tokens between the "|" tokens
splitIntoCommands(parts) ==
    LET pipes == {i \in 1..Len(parts) : parts[i] = "|"} IN
    IF pipes = {} THEN << parts >>
    ELSE LET p == CHOOSE i \in pipes : \A j \in pipes : i <= j IN
         << SubSeq(parts, 1, p - 1) >> \o splitIntoCommands(SubSeq(parts, p + 1, Len(parts)))

\* The single commands of the sessions that exercise the files: HISTFILE, the
\* history commands and the redirections.
FileSessionLines ==
    { <<"history", "-r", "f">>, <<"history", "-w", "f">>, <<"history", "-a", "f">>,
      <<"echo", "hi", ">>", "o">>, <<"echo", "hi", "1>>", "o">>, <<"warn", "2>>", "o">> }

\* the lines a session ends with; cd is among them only, so that the file
\* names of every line resolve against the directory the shell started in
FileLastLines ==
    { <<"exit">>, <<"exit", "2">>,
      <<"history">>, <<"history", "0">>, <<"history", "1">>, <<"history", "2">>,
      <<"history", "7">>,
      <<"history", "-r", "d">>, <<"history", "-w", "d">>, <<"history", "-a", "d">>,
      <<"echo", "hi", ">", "o">>, <<"echo", "hi", "2>", "o">>, <<"echo", "hi", "2>>", "o">>,
      <<"warn", ">", "o">>, <<"warn", "1>", "o">>, <<"warn", ">>", "o">>,
      <<"warn", "2>", "o">>, <<"ls", "2>", "o">>, <<"big", ">", "o">>,
      <<"nosuch">>, <<"nosuch", "arg">>,
      <<"cd", "d">>, <<"cd", "nodir">>, <<"cd", "f">>, <<"cd", "~">>, <<"cd">>, <<"pwd">>,
      <<"pwd", ">", "o">>, <<"type", "ls", ">>", "o">>, <<"type", "echo", "1>", "o">>,
      <<"cd", "nodir", "2>", "o">>, <<"history", "1", ">", "o">>,
      <<"type", ">", "o">>, <<"cd", ">", "o">> }

FileLines(n) ==
    IF n < MaxLines THEN FileSessionLines ELSE FileSessionLines \cup FileLastLines

\* what HISTFILE and the redirection target hold when the shell starts, if
\* they exist: two entries around a blank line, and one line of text
OldHistory == << 101, BlankLine, 102 >>
OldText == << Line("old", <<>>) >>

\* the inputs of the functions called on their own
MaxTokens == 3
Tokens == {"echo", "x"} \cup RedirectOps
TokenLists == UNION { [1..n -> Tokens] : n \in 0..MaxTokens }
PurePaths ==
    { <<>>, <<"d1">>, <<"d2">>, <<"d1", "d2">>, <<"d2", "d1">> }
PureNames == {"ls", "cat", "data", "sub", "nosuch"}

\* ------------------------------------------------------------ tokenizer
\* An input line is a sequence of characters, a token a sequence of
\* characters, and the local variables of parseCommand are one record.
MaxChars == 4
Chars == {"a", "b", " ", "'", "\"", "\\"}
RECURSIVE Inputs(_)
Inputs(n) ==
    IF n = 0 THEN { <<>> }
    ELSE Inputs(n - 1) \cup
         {Append(s, c) : s \in {t \in Inputs(n - 1) : Len(t) = n - 1}, c \in Chars}

\* parseCommand entered: parts = [], current = "", quoteChar = "", i = 0
\* (i counts from 1 here)
StartScan(input) ==
    [ input |-> input, i |-> 1, parts |-> <<>>, current |-> <<>>, quoteChar |-> "",
      done |-> FALSE ]
NoScan == [StartScan(<<>>) EXCEPT !.done = TRUE]

\* the loop body pushing the token at every space, empty or not
parseCommandStepPushesEmpty(sc) ==
    LET char == sc.input[sc.i]
        hasNext == sc.i + 1 <= Len(sc.input)
        nextChar == IF hasNext THEN sc.input[sc.i + 1] ELSE ""
        step == [sc EXCEPT !.i = @ + 1] IN
    IF char = "\\" /\ hasNext
    THEN IF sc.quoteChar = ""
         THEN [sc EXCEPT !.current = Append(@, nextChar), !.i = @ + 2]
         ELSE IF sc.quoteChar = "\"" /\ nextChar \in {"\"", "\\"}
         THEN [sc EXCEPT !.current = Append(@, nextChar), !.i = @ + 2]
         ELSE [step EXCEPT !.current = Append(@, char)]
    ELSE IF char \in {"'", "\""} /\ sc.quoteChar = ""
    THEN [step EXCEPT !.quoteChar = char]
    ELSE IF char = sc.quoteChar
    THEN [step EXCEPT !.quoteChar = ""]
    ELSE IF char = " " /\ sc.quoteChar = ""
    THEN [step EXCEPT !.parts = Append(@, sc.current), !.current = <<>>]
    ELSE [step EXCEPT !.current = Append(@, char)]

\* the loop body dropping a backslash before any character inside double
\* quotes
parseCommandStepEscapesAll(sc) ==
    LET char == sc.input[sc.i]
        hasNext == sc.i + 1 <= Len(sc.input)
        nextChar == IF hasNext THEN sc.input[sc.i + 1] ELSE ""
        step == [sc EXCEPT !.i = @ + 1] IN
    IF char = "\\" /\ hasNext
    THEN IF sc.quoteChar = ""
         THEN [sc EXCEPT !.current = Append(@, nextChar), !.i = @ + 2]
         ELSE IF sc.quoteChar = "\""
         THEN [sc EXCEPT !.current = Append(@, nextChar), !.i = @ + 2]
         ELSE [step EXCEPT !.current = Append(@, char)]
    ELSE IF char \in {"'", "\""} /\ sc.quoteChar = ""
    THEN [step EXCEPT !.quoteChar = char]
    ELSE IF char = sc.quoteChar
    THEN [step EXCEPT !.quoteChar = ""]
    ELSE IF char = " " /\ sc.quoteChar = ""
    THEN IF sc.current # <<>>
         THEN [step EXCEPT !.parts = Append(@, sc.current), !.current = <<>>]
         ELSE step
    ELSE [step EXCEPT !.current = Append(@, char)]

\* the loop body closing a quoted section at either quote character
parseCommandStepAnyQuoteCloses(sc) ==
    LET char == sc.input[sc.i]
        hasNext == sc.i + 1 <= Len(sc.input)
        nextChar == IF hasNext THEN sc.input[sc.i + 1] ELSE ""
        step == [sc EXCEPT !.i = @ + 1] IN
    IF char = "\\" /\ hasNext
    THEN IF sc.quoteChar = ""
         THEN [sc EXCEPT !.current = Append(@, nextChar), !.i = @ + 2]
         ELSE IF sc.quoteChar = "\"" /\ nextChar \in {"\"", "\\"}
         THEN [sc EXCEPT !.current = Append(@, nextChar), !.i = @ + 2]
         ELSE [step EXCEPT !.current = Append(@, char)]
    ELSE IF char \in {"'", "\""} /\ sc.quoteChar = ""
    THEN [step EXCEPT !.quoteChar = char]
    ELSE IF char \in {"'", "\""}
    THEN [step EXCEPT !.quoteChar = ""]
    ELSE IF char = " " /\ sc.quoteChar = ""
    THEN IF sc.current # <<>>
         THEN [step EXCEPT !.parts = Append(@, sc.current), !.current = <<>>]
         ELSE step
    ELSE [step EXCEPT !.current = Append(@, char)]

\* one turn of the loop of parseCommand, on the character at i
parseCommandStep(sc) ==
    LET char == sc.input[sc.i]
        hasNext == sc.i + 1 <= Len(sc.input)
        nextChar == IF hasNext THEN sc.input[sc.i + 1] ELSE ""
        step == [sc EXCEPT !.i = @ + 1] IN
    IF char = "\\" /\ hasNext
    THEN IF sc.quoteChar = ""
         THEN [sc EXCEPT !.current = Append(@, nextChar), !.i = @ + 2]
         ELSE IF sc.quoteChar = "\"" /\ nextChar \in {"\"", "\\"}
         THEN [sc EXCEPT !.current = Append(@, nextChar), !.i = @ + 2]
         ELSE [step EXCEPT !.current = Append(@, char)]
    ELSE IF char \in {"'", "\""} /\ sc.quoteChar = ""
    THEN [step EXCEPT !.quoteChar = char]
    ELSE IF char = sc.quoteChar
    THEN [step EXCEPT !.quoteChar = ""]
    ELSE IF char = " " /\ sc.quoteChar = ""
    THEN IF sc.current # <<>>
         THEN [step EXCEPT !.parts = Append(@, sc.current), !.current = <<>>]
         ELSE step
    ELSE [step EXCEPT !.current = Append(@, char)]

\* behind the loop: the last token, and the return of parts
parseCommandEnd(sc) ==
    [sc EXCEPT !.parts = IF sc.current # <<>> THEN Append(@, sc.current) ELSE @,
               !.done = TRUE]

\* ----------------------------------------------------------------- state
VARIABLES
    impl,               \* which snapshot runs: "main", "cb" or "rx"
    pathDirs,           \* process.env.PATH, split
    shell,              \* "prompt" (rl.question pending), "busy", "exited", "crashed"
    lineNo,             \* lines read so far
    commandHistory,     \* the in-memory history; the n-th line read stands as n
    lastAppendedIndex,  \* the session's index of the first entry not yet appended
    files,              \* file name -> the entries written to it
    commands,           \* the stages of the line being run
    strategy,           \* "none", "relay" (Sequential-Relay) or "piped" (Concurrent-Piped)
    pending,            \* live child processes and pending asynchronous operations
    closedGates,        \* subscribers of external relay stages that have completed
    out,                \* what reached the terminal while this line ran, a bag of writes
    started,            \* stage -> how often it was started (handler call or spawn)
    finished,           \* stage -> how often it completed (result returned or close event)
    signals,            \* completion signals of this line: repl() calls, emitted values
    driven,             \* the strategies that started a stage of this line
    HISTFILE,           \* process.env.HISTFILE, "" when unset
    exists,             \* the regular files that exist
    exitCode,           \* the code handed to process.exit, -1 while the process runs
    cmdLine,            \* the tokens of the line being run
    cwd,                \* process.cwd(); "start" is the directory the shell started in
    HOME,               \* process.env.HOME, "" when unset
    scan,               \* a call of parseCommand: its input and its local variables
    events,             \* the spawn and pipe calls of this line's Concurrent-Piped run, in order
    ret                 \* the value returned by a function called on its own

vars == << impl, pathDirs, shell, lineNo, commandHistory, lastAppendedIndex, files,
           commands, strategy, pending, closedGates, out, started, finished,
           signals, driven, HISTFILE, exists, exitCode, cmdLine, cwd, HOME, scan, events, ret >>

\* the mutable state as one value, handed through the calls of a handler
World ==
    [ pathDirs |-> pathDirs, shell |-> shell, commandHistory |-> commandHistory,
      lastAppendedIndex |-> lastAppendedIndex, files |-> files, commands |-> commands,
      strategy |-> strategy, pending |-> pending, closedGates |-> closedGates,
      out |-> out, started |-> started, finished |-> finished,
      signals |-> signals, driven |-> driven, exists |-> exists,
      exitCode |-> exitCode, cwd |-> cwd, events |-> events ]

Commit(w) ==
    /\ shell' = w.shell
    /\ commandHistory' = w.commandHistory
    /\ lastAppendedIndex' = w.lastAppendedIndex
    /\ files' = w.files
    /\ commands' = w.commands
    /\ strategy' = w.strategy
    /\ pending' = w.pending
    /\ closedGates' = w.closedGates
    /\ out' = w.out
    /\ started' = w.started
    /\ finished' = w.finished
    /\ signals' = w.signals
    /\ driven' = w.driven
    /\ exists' = w.exists
    /\ exitCode' = w.exitCode
    /\ cwd' = w.cwd
    /\ events' = w.events
    /\ UNCHANGED << impl, pathDirs, HISTFILE, HOME, scan, ret >>

NoStage == [i \in 1..MaxStages |-> 0]

Init ==
    /\ impl \in {"main", "cb", "rx"}
    /\ pathDirs \in PathChoices
    /\ shell = "prompt"
    /\ lineNo = 0
    /\ commandHistory = <<>>
    /\ lastAppendedIndex = 0
    /\ files = [f \in FileNames |-> <<>>]
    /\ commands = <<>>
    /\ strategy = "none"
    /\ pending = {}
    /\ closedGates = {}
    /\ out = EmptyBag
    /\ started = NoStage
    /\ finished = NoStage
    /\ signals = 0
    /\ driven = {}
    /\ HISTFILE = ""
    /\ exists = {}
    /\ exitCode = -1
    /\ cmdLine = <<>>
    /\ cwd = "start"
    /\ HOME = "home"
    /\ scan = NoScan
    /\ events = <<>>
    /\ ret = [fn |-> "none", arg |-> "", r |-> parseRedirection(<<>>), path |-> ""]

\* ------------------------------------------------------ terminal, signals
\* process.stdout.write(text) by the shell for stage pos
Write(w, pos, text) ==
    [w EXCEPT !.out = @ (+) SetToBag({[by |-> "write", pos |-> pos, text |-> text]})]

\* console.log of a diagnostic line
Log(w, pos, text) ==
    [w EXCEPT !.out = @ (+) SetToBag({[by |-> "log", pos |-> pos, text |-> text]})]

\* bytes a child wrote to the terminal through an inherited stdout
ChildWrite(w, pos, text) ==
    IF text = <<>> THEN w
    ELSE [w EXCEPT !.out = @ (+) SetToBag({[by |-> "proc", pos |-> pos, text |-> text]})]

\* an exception nobody catches ends the process
Crash(w) == [w EXCEPT !.shell = "crashed"]

Dead(w) == w.shell \in {"crashed", "exited"}

\* repl(): rl.question arms the next input cycle
repl(w) == [w EXCEPT !.shell = "prompt", !.signals = @ + 1]

StartStage(w, pos, how) ==
    [w EXCEPT !.started[pos] = @ + 1, !.driven = @ \cup {how}]

FinishStage(w, pos) == [w EXCEPT !.finished[pos] = @ + 1]

\* ------------------------------------------------------------ file system
\* whether fs.readFile(name) succeeds: the file exists and is no directory
Readable(w, name) == name \in FileNames /\ name \in w.exists

\* whether fs.writeFile(name) and fs.appendFile(name) succeed
Writable(name) == name \in FileNames

\* fs.writeFile(name, content): the content replaces what the file held
writeFile(w, name, content) ==
    [w EXCEPT !.files[name] = content, !.exists = @ \cup {name}]

\* fs.appendFile replacing the content of the file
appendFileTruncating(w, name, content) ==
    [w EXCEPT !.files[name] = content, !.exists = @ \cup {name}]

\* fs.appendFile(name, content): the content follows what the file held
appendFile(w, name, content) ==
    [w EXCEPT !.files[name] = @ \o content, !.exists = @ \cup {name}]

\* -------------------------------------------------------- child processes
\* where the values of an Observable go: to the session ("top") or to a bare
\* .subscribe() ("none"), through the subscribers of the enclosing external
\* stages (gates), each of which completes with the first value it forwards.
\* lin names the subscription: the directories whose lookup results, emitted
\* by the `type` stages before it, led to it
TopSink == [base |-> "top", gates |-> {}, lin |-> <<>>]

\* a bare .subscribe() in the place of sink
Bare(sink) == [base |-> "none", gates |-> {}, lin |-> sink.lin]

\* a child process (k = "proc") or a pending asynchronous operation of the
\* reactive version (k = "fs": fs.appendFile, k = "stat": the fs.stat calls)
Pending(k, pos, name, mode, stdin, stdout, input, idx, sink, dirs) ==
    [ k |-> k, id |-> <<pos, sink.lin>>, pos |-> pos, name |-> name, mode |-> mode,
      stdin |-> stdin, stdout |-> stdout,
      stderr |-> "inherit",  \* the third entry of stdio
      args |-> <<>>,         \* the arguments handed to spawn
      ended |-> FALSE,       \* stdin.end() was called
      input |-> input,       \* what was written to stdin (fs: the content to append)
      got |-> 0,             \* the data events of stdout delivered so far
      output |-> <<>>,       \* what the data listener of a relay stage has collected
      idx |-> idx,           \* the lastAppendedIndex the continuation closes over
      sink |-> sink,
      watched |-> FALSE,     \* a close listener is installed
      spliced |-> FALSE,     \* stdout is piped into the next stage's stdin
      failed |-> name = "bad",   \* the spawn failed: an error event is due
      dirs |-> dirs,
      op |-> "" ]            \* fs: the operation; a redirected child: the operator

\* what a program writes to its stdout, given what it read
ProgOut(name, input) ==
    CASE name = "cat" -> input
      [] name = "ls" -> LsText
      [] name = "warn" -> << Line("report", <<>>) >>
      [] name = "big" -> << Line("chunk", <<1>>), Line("chunk", <<2>>) >>
      [] OTHER -> <<>>

\* what a program writes to its stderr
ProgErr(name) == IF name = "warn" THEN << Line("warning", <<>>) >> ELSE <<>>

RECURSIVE PipedOutput(_, _)
\* the stdout of stage pos of an all-external pipeline joined by OS pipes
\* (stage 1 reads the terminal, which gives it no data)
PipedOutput(cmds, pos) ==
    IF pos = 0 THEN <<>> ELSE ProgOut(At(cmds[pos], 1), PipedOutput(cmds, pos - 1))

\* spawn of a Sequential-Relay stage: stdio, then the input is written and
\* stdin ended, only if (input)
SpawnRelay(w, pos, cmdName, input, idx, sink) ==
    LET last == pos = Len(w.commands)
        p == [Pending("proc", pos, cmdName, "relay", "pipe",
                      IF last THEN "inherit" ELSE "pipe", <<>>, idx, sink, {})
                EXCEPT !.watched = TRUE,
                       !.args = Rest(w.commands[pos]),
                       !.stderr = IF last THEN "inherit" ELSE "pipe",
                       !.input = input,
                       !.ended = (input # <<>>)]
    IN  [StartStage(w, pos, "relay") EXCEPT !.pending = @ \cup {p}]

\* ---------------------------------------------- builtins as pipeline stages
\* history -a file of main.ts executeBuiltin: the entries from idx on are
\* appended and the index moves to the end; nothing happens when none is new
HistoryAppend(w, file, idx) ==
    LET newCommands == SliceFrom(w.commandHistory, idx) IN
    IF newCommands = <<>> \/ ~Writable(file) THEN [w |-> w, idx |-> idx]
    ELSE [w |-> appendFile(w, file, joinLines(newCommands)),
          idx |-> Len(w.commandHistory)]

\* the type lookup: the line for targetCommand, or "throw" when
\* path.join(dir, undefined) raises its TypeError outside the try block
typeText(dirs, targetCommand) ==
    LET dir == findCommand(dirs, targetCommand) IN
    IF isBuiltin(targetCommand) THEN TypeBuiltinText(targetCommand)
    ELSE IF dir = "throw" THEN "throw"
    ELSE IF dir # "" THEN TypeIsText(targetCommand, dir)
    ELSE TypeNotFoundText(targetCommand)

\* executeBuiltin(cmd) of main.ts, on the index idx: the text it returns, the
\* world and index after it, and whether it threw
executeBuiltin(w, cmd, idx) ==
    LET command == At(cmd, 1) IN
    CASE command = "echo" ->
           [w |-> w, idx |-> idx, result |-> EchoText(Rest(cmd)), throws |-> FALSE]
      [] command = "history" /\ At(cmd, 2) = "-a" /\ Truthy(At(cmd, 3)) ->
           LET h == HistoryAppend(w, At(cmd, 3), idx) IN
           [w |-> h.w, idx |-> h.idx, result |-> <<>>, throws |-> FALSE]
      [] command = "history" /\ At(cmd, 2) = "-r" /\ Truthy(At(cmd, 3)) ->
           [w |-> IF Readable(w, At(cmd, 3))
                  THEN [w EXCEPT !.commandHistory = @ \o splitNonBlank(w.files[At(cmd, 3)])]
                  ELSE w,
            idx |-> idx, result |-> <<>>, throws |-> FALSE]
      [] command = "history" /\ At(cmd, 2) = "-w" /\ Truthy(At(cmd, 3)) ->
           [w |-> IF Writable(At(cmd, 3))
                  THEN writeFile(w, At(cmd, 3), joinLines(w.commandHistory))
                  ELSE w,
            idx |-> idx, result |-> <<>>, throws |-> FALSE]
      [] command = "history" ->
           [w |-> w, idx |-> idx, result |-> historyText(w.commandHistory, At(cmd, 2)),
            throws |-> FALSE]
      [] command = "type" ->
           LET t == typeText(w.pathDirs, At(cmd, 2)) IN
           IF t = "throw"
           THEN [w |-> w, idx |-> idx, result |-> <<>>, throws |-> TRUE]
           ELSE [w |-> w, idx |-> idx, result |-> t, throws |-> FALSE]
      [] OTHER ->
           [w |-> w, idx |-> idx, result |-> <<>>, throws |-> FALSE]

RECURSIVE executePipelineRecursivePassesInput(_, _, _)
\* the relay handing a builtin stage's own input on to the stage behind it
executePipelineRecursivePassesInput(w, pos, input) ==
    IF pos > Len(w.commands)
    THEN repl(IF input # <<>> THEN Write(w, pos - 1, input) ELSE w)
    ELSE LET currentCmd == w.commands[pos]
             cmdName == At(currentCmd, 1) IN
         IF isBuiltin(cmdName)
         THEN LET b == executeBuiltin(StartStage(w, pos, "relay"), currentCmd,
                                      w.lastAppendedIndex) IN
              IF b.throws THEN Crash(b.w)
              ELSE executePipelineRecursivePassesInput(
                       FinishStage([b.w EXCEPT !.lastAppendedIndex = b.idx], pos),
                       pos + 1, IF input # <<>> THEN input ELSE b.result)
         ELSE LET cmdPath == findCommand(w.pathDirs, cmdName) IN
              IF cmdPath = "throw" THEN Crash(w)
              ELSE IF cmdPath = ""
              THEN repl(Log(w, pos, CommandNotFoundText(cmdName)))
              ELSE SpawnRelay(w, pos, cmdName, input, w.lastAppendedIndex, TopSink)

\* ------------------------------------------- Sequential-Relay, main.ts
RECURSIVE executePipelineRecursive(_, _, _)
\* executePipelineRecursive(commands.slice(pos-1), input) of main.ts
executePipelineRecursive(w, pos, input) ==
    IF pos > Len(w.commands)
    THEN repl(IF input # <<>> THEN Write(w, pos - 1, input) ELSE w)
    ELSE LET currentCmd == w.commands[pos]
             cmdName == At(currentCmd, 1) IN
         IF isBuiltin(cmdName)
         THEN LET b == executeBuiltin(StartStage(w, pos, "relay"), currentCmd,
                                      w.lastAppendedIndex) IN
              IF b.throws THEN Crash(b.w)
              ELSE executePipelineRecursive(
                       FinishStage([b.w EXCEPT !.lastAppendedIndex = b.idx], pos),
                       pos + 1, b.result)
         ELSE LET cmdPath == findCommand(w.pathDirs, cmdName) IN
              IF cmdPath = "throw" THEN Crash(w)
              ELSE IF cmdPath = ""
              THEN repl(Log(w, pos, CommandNotFoundText(cmdName)))
              ELSE SpawnRelay(w, pos, cmdName, input, w.lastAppendedIndex, TopSink)

\* the close listener that re-arms the prompt installed on every stage
MainOnCloseAlwaysRepl(w, p, output) ==
    IF p.pos = Len(w.commands) THEN repl(w)
    ELSE executePipelineRecursive(repl(w), p.pos + 1, output)

\* the close listener of a stage of main.ts executePipelineRecursive
MainOnClose(w, p, output) ==
    IF p.pos = Len(w.commands) THEN repl(w)
    ELSE executePipelineRecursive(w, p.pos + 1, output)

\* --------------------------------- Sequential-Relay, callback pipeline.ts
\* executeBuiltin of the callback version's ./builtins, which returns
\* { result, newLastAppendedIndex }
executeBuiltinCb(w, cmd, idx) == executeBuiltin(w, cmd, idx)

\* the replCallback the session hands to executeMultiPipeline
replCallback(w) == repl(w)

RECURSIVE executePipelineRecursiveCb(_, _, _, _)
\* executePipelineRecursive(commands.slice(pos-1), input, commandHistory,
\* lastAppendedIndex, replCallback): the world after it and the number it returns
executePipelineRecursiveCb(w, pos, input, idx) ==
    IF pos > Len(w.commands)
    THEN [w |-> replCallback(IF input # <<>> THEN Write(w, pos - 1, input) ELSE w),
          ret |-> idx]
    ELSE LET currentCmd == w.commands[pos]
             cmdName == At(currentCmd, 1) IN
         IF isBuiltin(cmdName)
         THEN LET b == executeBuiltinCb(StartStage(w, pos, "relay"), currentCmd, idx) IN
              IF b.throws THEN [w |-> Crash(b.w), ret |-> idx]
              ELSE executePipelineRecursiveCb(FinishStage(b.w, pos), pos + 1, b.result, b.idx)
         ELSE LET cmdPath == findCommand(w.pathDirs, cmdName) IN
              IF cmdPath = "throw" THEN [w |-> Crash(w), ret |-> idx]
              ELSE IF cmdPath = ""
              THEN [w |-> replCallback(Log(w, pos, CommandNotFoundText(cmdName))), ret |-> idx]
              ELSE [w |-> SpawnRelay(w, pos, cmdName, input, idx, TopSink), ret |-> idx]

\* the close listener of a stage of the callback version: the number the
\* continuation returns goes nowhere
CbOnClose(w, p, output) ==
    IF p.pos = Len(w.commands) THEN replCallback(w)
    ELSE executePipelineRecursiveCb(w, p.pos + 1, output, p.idx).w

\* --------------------------------- Sequential-Relay, reactive pipeline.ts
\* the session's subscriber: the first value is the completion signal, and a
\* value's newLastAppendedIndex (idx >= 0) becomes the session's index
SessionNext(w, idx) ==
    [w EXCEPT !.signals = @ + 1,
              !.shell = "prompt",
              !.lastAppendedIndex = IF idx >= 0 THEN idx ELSE @]

\* subscriber.next(value) at the end of a chain of subscribers: a subscriber
\* that has completed drops the value; one that forwards it completes
Emit(w, sink, idx) ==
    IF sink.base = "none" \/ sink.gates \cap w.closedGates # {} THEN w
    ELSE SessionNext([w EXCEPT !.closedGates = @ \cup sink.gates], idx)

\* the subscriber of the rest of the pipeline behind external stage id
Behind(sink, id) ==
    IF sink.base = "none" THEN sink ELSE [sink EXCEPT !.gates = @ \cup {id}]

RECURSIVE executePipelineRecursiveRx(_, _, _, _, _)
RECURSIVE RxMap(_, _, _, _, _)

\* the map callback behind executeBuiltin$: runs once per value the builtin's
\* Observable emits
RxMap(w, pos, result, newLastAppendedIndex, sink) ==
    LET w1 == FinishStage(w, pos) IN
    IF pos = Len(w.commands)
    THEN Emit(IF result # <<>> THEN Write(w1, pos, result) ELSE w1, sink, newLastAppendedIndex)
    ELSE LET w2 == executePipelineRecursiveRx(w1, pos + 1, result, newLastAppendedIndex, Bare(sink)) IN
         IF Dead(w2) THEN w2 ELSE Emit(w2, sink, newLastAppendedIndex)

\* what follows a value of executeBuiltin$: the map callback of a pipeline
\* stage, or for a single command (pos = 0) the tap that writes the result and
\* the map that hands on the index
RxDeliver(w, pos, result, newLastAppendedIndex, sink) ==
    IF pos = 0
    THEN Emit(IF result # <<>> THEN Write(w, 0, result) ELSE w, sink, newLastAppendedIndex)
    ELSE RxMap(w, pos, result, newLastAppendedIndex, sink)

\* a pending fs operation of the reactive version
FsTask(pos, op, file, content, idx, sink) ==
    [Pending("fs", pos, file, IF pos = 0 THEN "none" ELSE "relay", "", "",
             content, idx, sink, {}) EXCEPT !.op = op]

\* executeHistoryCommand$(args, commandHistory, idx): the file operations are
\* asynchronous, their failure is caught and yields the unchanged index
executeHistoryCommandRx(w, pos, args, idx, sink) ==
    LET flag == At(args, 1)
        file == At(args, 2) IN
    CASE flag = "-r" /\ Truthy(file) ->
           [w EXCEPT !.pending = @ \cup {FsTask(pos, "history-r", file, <<>>, idx, sink)}]
      [] flag = "-w" /\ Truthy(file) ->
           [w EXCEPT !.pending = @ \cup
               {FsTask(pos, "history-w", file, joinLines(w.commandHistory), idx, sink)}]
      [] flag = "-a" /\ Truthy(file) ->
           LET newCommands == SliceFrom(w.commandHistory, idx) IN
           IF newCommands = <<>> THEN RxDeliver(w, pos, <<>>, idx, sink)
           ELSE [w EXCEPT !.pending = @ \cup
                   {FsTask(pos, "history-a", file, joinLines(newCommands), idx, sink)}]
      [] OTHER -> RxDeliver(w, pos, historyText(w.commandHistory, flag), idx, sink)

\* executeBuiltin$(cmd, commandHistory, idx).pipe(map(...)): echo and the
\* other plain builtins emit at once; history emits as executeHistoryCommand$
\* does; type emits once per value of findCommand$
RxBuiltinStage(w, pos, cmd, idx, sink) ==
    LET command == At(cmd, 1) IN
    CASE command = "echo" -> RxMap(w, pos, EchoText(Rest(cmd)), idx, sink)
      [] command = "history" -> executeHistoryCommandRx(w, pos, Rest(cmd), idx, sink)
      [] command = "type" ->
           LET targetCommand == At(cmd, 2) IN
           IF isBuiltin(targetCommand)
           THEN RxMap(w, pos, TypeBuiltinText(targetCommand), idx, sink)
           ELSE IF w.pathDirs = <<>> THEN w
           ELSE IF targetCommand = UNDEF
           THEN RxMap(w, pos, TypeNotFoundText(targetCommand), idx, sink)
           ELSE [w EXCEPT !.pending = @ \cup
                    {Pending("stat", pos, targetCommand, "relay", "", "",
                             <<>>, idx, sink,
                             {w.pathDirs[i] : i \in 1..Len(w.pathDirs)})}]
      [] OTHER -> RxMap(w, pos, <<>>, idx, sink)

\* executePipelineRecursive$(commands.slice(pos-1), input, commandHistory,
\* idx), subscribed by sink
executePipelineRecursiveRx(w, pos, input, idx, sink) ==
    IF pos > Len(w.commands)
    THEN Emit(IF input # <<>> THEN Write(w, pos - 1, input) ELSE w, sink, idx)
    ELSE LET currentCmd == w.commands[pos]
             cmdName == At(currentCmd, 1) IN
         IF isBuiltin(cmdName)
         THEN RxBuiltinStage(StartStage(w, pos, "relay"), pos, currentCmd, idx, sink)
         ELSE LET cmdPath == findCommand(w.pathDirs, cmdName) IN
              IF cmdPath = "throw" THEN Crash(w)
              ELSE IF cmdPath = ""
              THEN Emit(Log(w, pos, CommandNotFoundText(cmdName)), sink, idx)
              ELSE SpawnRelay(w, pos, cmdName, input, idx, sink)

\* the close listener of a stage of the reactive version
RxOnClose(w, p, output) ==
    IF p.pos = Len(w.commands) THEN Emit(w, p.sink, p.idx)
    ELSE executePipelineRecursiveRx(w, p.pos + 1, output, p.idx, Behind(p.sink, p.id))

\* ------------------------------------------------------ Concurrent-Piped
\* how a Concurrent-Piped run signals completion: repl() in main.ts,
\* replCallback() in the callback version, subscriber.next({}) in the
\* reactive one
PipedSignal(w) ==
    CASE impl = "main" -> repl(w)
      [] impl = "cb" -> replCallback(w)
      [] OTHER -> Emit(w, TopSink, -1)

\* the stdio of stage i of commands.length stages
PipedStdin(i) == IF i = 1 THEN "inherit" ELSE "pipe"
\* the last stage's stdout piped like that of the stages before it
PipedStdoutAlwaysPipe(i, n) == "pipe"
PipedStdout(i, n) == IF i = 1 THEN "pipe" ELSE IF i = n THEN "inherit" ELSE "pipe"
PipedStderr(i) == "inherit"

\* the splice loop stopping one pipe short
ConnectPipesOneShort(w) ==
    LET n == Len(w.commands) IN
    [w EXCEPT !.pending = {[p EXCEPT !.spliced = (p.pos > 1 /\ p.pos < n)] : p \in @},
              !.events = @ \o [i \in 1..(n - 2) |-> [e |-> "pipe", i |-> i]]]

\* the splice loop: processes[i].stdout.pipe(processes[i + 1].stdin) for
\* every i but the last
ConnectPipes(w) ==
    LET n == Len(w.commands) IN
    [w EXCEPT !.pending = {[p EXCEPT !.spliced = (p.pos > 1)] : p \in @},
              !.events = @ \o [i \in 1..(n - 1) |-> [e |-> "pipe", i |-> i]]]

RECURSIVE PipedLoop(_, _)
\* the spawn loop from stage i on, then the splice loop and the close
\* listener on the last process
PipedLoop(w, i) ==
    IF i > Len(w.commands)
    THEN [ConnectPipes(w) EXCEPT !.pending =
              {[p EXCEPT !.watched = (p.pos = Len(w.commands))] : p \in @}]
    ELSE LET cmdName == At(w.commands[i], 1)
             cmdPath == findCommand(w.pathDirs, cmdName) IN
         IF cmdPath = "throw" THEN Crash(w)
         ELSE IF cmdPath = ""
         THEN PipedSignal(Log(w, i, CommandNotFoundText(cmdName)))
         ELSE PipedLoop(
                [StartStage(w, i, "piped") EXCEPT
                    !.events = Append(@, [e |-> "spawn", i |-> i]),
                    !.pending = @ \cup
                        {[Pending("proc", i, cmdName, "piped", PipedStdin(i),
                                  PipedStdout(i, Len(w.commands)), <<>>, -1, TopSink, {})
                            EXCEPT !.stderr = PipedStderr(i),
                                   !.args = Rest(w.commands[i])]}],
                i + 1)

\* hasBuiltin looking at the first stage only
hasBuiltinFirstOnly(cmds) == isBuiltin(At(cmds[1], 1))

\* the strategy choice of executePipeline$ / executeMultiPipeline
hasBuiltin(cmds) == \E i \in 1..Len(cmds) : isBuiltin(At(cmds[i], 1))

\* ------------------------------------------------------- the input cycle
\* executeMultiPipeline(commands) of main.ts
executeMultiPipeline(w) ==
    IF hasBuiltin(w.commands)
    THEN executePipelineRecursive([w EXCEPT !.strategy = "relay"], 1, <<>>)
    ELSE PipedLoop([w EXCEPT !.strategy = "piped"], 1)

\* executeMultiPipeline(commands, commandHistory, lastAppendedIndex,
\* replCallback) of the callback version; the session keeps the number it returns
executeMultiPipelineCb(w) ==
    IF hasBuiltin(w.commands)
    THEN LET r == executePipelineRecursiveCb([w EXCEPT !.strategy = "relay"], 1, <<>>,
                                             w.lastAppendedIndex) IN
         [r.w EXCEPT !.lastAppendedIndex = r.ret]
    ELSE PipedLoop([w EXCEPT !.strategy = "piped"], 1)

\* executePipeline$(parts, pipeIndices, commandHistory, lastAppendedIndex),
\* subscribed by the session
executePipelineRx(w) ==
    IF hasBuiltin(w.commands)
    THEN executePipelineRecursiveRx([w EXCEPT !.strategy = "relay"], 1, <<>>,
                                    w.lastAppendedIndex, TopSink)
    ELSE PipedLoop([w EXCEPT !.strategy = "piped"], 1)

\* exit writing the whole history to HISTFILE instead of its unsaved part
MainExitWholeHistory(w, parts) ==
    LET code == IF Truthy(At(parts, 2)) THEN parseInt(At(parts, 2)) ELSE 0
        w1 == IF HISTFILE # "" /\ Writable(HISTFILE)
              THEN appendFile(w, HISTFILE, joinLines(w.commandHistory))
              ELSE w
    IN  [w1 EXCEPT !.shell = "exited", !.exitCode = code]

\* the exit branch of repl: the entries not yet appended go to HISTFILE,
\* a failure is swallowed, then process.exit(exitCode)
MainExit(w, parts) ==
    LET code == IF Truthy(At(parts, 2)) THEN parseInt(At(parts, 2)) ELSE 0
        newCommands == SliceFrom(w.commandHistory, w.lastAppendedIndex)
        w1 == IF HISTFILE # "" /\ newCommands # <<>> /\ Writable(HISTFILE)
              THEN appendFile(w, HISTFILE, joinLines(newCommands))
              ELSE w
    IN  [w1 EXCEPT !.shell = "exited", !.exitCode = code]

\* echo whose 2>> empties the target whether it exists or not
MainEchoAlwaysCreates(w, cmdParts, r) ==
    LET output == EchoText(Rest(cmdParts)) IN
    CASE Truthy(r.redirectFile) ->
           IF Writable(r.redirectFile) THEN repl(writeFile(w, r.redirectFile, output))
           ELSE Crash(w)
      [] Truthy(r.appendFile) ->
           IF Writable(r.appendFile) THEN repl(appendFile(w, r.appendFile, output))
           ELSE Crash(w)
      [] Truthy(r.stderrRedirectFile) ->
           IF Writable(r.stderrRedirectFile)
           THEN repl(writeFile(Log(w, 0, output), r.stderrRedirectFile, <<>>))
           ELSE Crash(Log(w, 0, output))
      [] Truthy(r.stderrAppendFile) ->
           IF Writable(r.stderrAppendFile)
           THEN repl(writeFile(Log(w, 0, output), r.stderrAppendFile, <<>>))
           ELSE Crash(Log(w, 0, output))
      [] OTHER -> repl(Log(w, 0, output))

\* the echo branch of repl: no try block stands around its file writes
MainEcho(w, cmdParts, r) ==
    LET output == EchoText(Rest(cmdParts)) IN
    CASE Truthy(r.redirectFile) ->
           IF Writable(r.redirectFile) THEN repl(writeFile(w, r.redirectFile, output))
           ELSE Crash(w)
      [] Truthy(r.appendFile) ->
           IF Writable(r.appendFile) THEN repl(appendFile(w, r.appendFile, output))
           ELSE Crash(w)
      [] Truthy(r.stderrRedirectFile) ->
           IF Writable(r.stderrRedirectFile)
           THEN repl(writeFile(Log(w, 0, output), r.stderrRedirectFile, <<>>))
           ELSE Crash(Log(w, 0, output))
      [] Truthy(r.stderrAppendFile) ->
           \* fs.existsSync is true of a directory
           IF r.stderrAppendFile \in w.exists \/ r.stderrAppendFile \in DirNames
           THEN repl(Log(w, 0, output))
           ELSE IF Writable(r.stderrAppendFile)
           THEN repl(writeFile(Log(w, 0, output), r.stderrAppendFile, <<>>))
           ELSE Crash(Log(w, 0, output))
      [] OTHER -> repl(Log(w, 0, output))

\* the one diagnostic line of a history command whose file operation threw
HistoryDiagnostic(file, what) == << Line("history", << file, what >>) >>

\* history -a setting lastAppendedIndex to the number of entries appended
MainHistoryCountsAppended(w, cmdParts) ==
    LET flag == At(cmdParts, 2)
        file == At(cmdParts, 3) IN
    CASE flag = "-r" /\ Truthy(file) ->
           IF Readable(w, file)
           THEN repl([w EXCEPT !.commandHistory = @ \o splitNonBlank(w.files[file])])
           ELSE repl(Log(w, 0, HistoryDiagnostic(file, "No such file or directory")))
      [] flag = "-w" /\ Truthy(file) ->
           IF Writable(file) THEN repl(writeFile(w, file, joinLines(w.commandHistory)))
           ELSE repl(Log(w, 0, HistoryDiagnostic(file, "Permission denied")))
      [] flag = "-a" /\ Truthy(file) ->
           LET newCommands == SliceFrom(w.commandHistory, w.lastAppendedIndex) IN
           IF newCommands = <<>> THEN repl(w)
           ELSE IF Writable(file)
           THEN repl([appendFile(w, file, joinLines(newCommands))
                        EXCEPT !.lastAppendedIndex = Len(newCommands)])
           ELSE repl(Log(w, 0, HistoryDiagnostic(file, "Permission denied")))
      [] OTHER ->
           LET listing == historyText(w.commandHistory, flag) IN
           repl(IF listing = <<>> THEN w ELSE Log(w, 0, listing))

\* the history branch of repl
MainHistory(w, cmdParts) ==
    LET flag == At(cmdParts, 2)
        file == At(cmdParts, 3) IN
    CASE flag = "-r" /\ Truthy(file) ->
           IF Readable(w, file)
           THEN repl([w EXCEPT !.commandHistory = @ \o splitNonBlank(w.files[file])])
           ELSE repl(Log(w, 0, HistoryDiagnostic(file, "No such file or directory")))
      [] flag = "-w" /\ Truthy(file) ->
           IF Writable(file) THEN repl(writeFile(w, file, joinLines(w.commandHistory)))
           ELSE repl(Log(w, 0, HistoryDiagnostic(file, "Permission denied")))
      [] flag = "-a" /\ Truthy(file) ->
           LET newCommands == SliceFrom(w.commandHistory, w.lastAppendedIndex) IN
           IF newCommands = <<>> THEN repl(w)
           ELSE IF Writable(file)
           THEN repl([appendFile(w, file, joinLines(newCommands))
                        EXCEPT !.lastAppendedIndex = Len(w.commandHistory)])
           ELSE repl(Log(w, 0, HistoryDiagnostic(file, "Permission denied")))
      [] OTHER ->
           \* one console.log per entry listed
           LET listing == historyText(w.commandHistory, flag) IN
           repl(IF listing = <<>> THEN w ELSE Log(w, 0, listing))

RECURSIVE MainExternalLoop(_, _, _, _, _)
\* the loop over pathDirs of the external branch of repl: spawnSync with the
\* targeted stream piped, then the file write; a write that throws is caught
\* by the try block of the loop body and the loop goes on to the next directory
MainExternalLoop(w, dirs, parts, command, r) ==
    IF dirs = <<>> THEN repl(Log(w, 0, << Line("command not found", parts) >>))
    ELSE IF command = UNDEF THEN Crash(w)
    ELSE IF ~Installed(Head(dirs), command)
    THEN MainExternalLoop(w, Tail(dirs), parts, command, r)
    ELSE LET ran == command # "bad"
             piped == Truthy(r.redirectFile) \/ Truthy(r.appendFile)
             pipedErr == ~piped /\ (Truthy(r.stderrRedirectFile) \/ Truthy(r.stderrAppendFile))
             stdout == IF piped THEN spawnSyncCapture(ProgOut(command, <<>>))
                       ELSE ProgOut(command, <<>>)
             stderr == IF pipedErr THEN spawnSyncCapture(ProgErr(command))
                       ELSE ProgErr(command)
             toFile(w1, file, content, append) ==
                 IF ~ran THEN repl(w1)
                 ELSE IF ~Writable(file)
                 THEN MainExternalLoop(w1, Tail(dirs), parts, command, r)
                 ELSE repl(IF append THEN appendFile(w1, file, content)
                           ELSE writeFile(w1, file, content))
         IN  CASE Truthy(r.redirectFile) ->
                    toFile(ChildWrite(w, 0, stderr), r.redirectFile, stdout, FALSE)
               [] Truthy(r.appendFile) ->
                    toFile(ChildWrite(w, 0, stderr), r.appendFile, stdout, TRUE)
               [] Truthy(r.stderrRedirectFile) ->
                    toFile(ChildWrite(w, 0, stdout), r.stderrRedirectFile, stderr, FALSE)
               [] Truthy(r.stderrAppendFile) ->
                    toFile(ChildWrite(w, 0, stdout), r.stderrAppendFile, stderr, TRUE)
               [] OTHER -> repl(ChildWrite(ChildWrite(w, 0, stdout), 0, stderr))

\* process.chdir(dir) succeeds: "home" is the one absolute directory, the
\* names of DirNames are directories of the start directory; chdir of a
\* missing directory, of a file, of "" and of undefined throws
CanEnter(from, dir) == dir = "home" \/ (dir \in DirNames /\ from = "start")

\* process.env.HOME || ""
HomeOrEmpty == IF Truthy(HOME) THEN HOME ELSE ""

CdErrorText(dir) == << Line("cd: No such file or directory", <<dir>>) >>

\* cd printing the expanded target instead of the argument
MainCdPrintsTarget(w, parts) ==
    LET targetDir == IF At(parts, 2) = "~" THEN HomeOrEmpty ELSE At(parts, 2) IN
    IF CanEnter(w.cwd, targetDir) THEN repl([w EXCEPT !.cwd = targetDir])
    ELSE repl(Log(w, 0, CdErrorText(targetDir)))

\* the cd branch of repl (main.ts): the catch block prints parts[1]
MainCd(w, parts) ==
    LET targetDir == IF At(parts, 2) = "~" THEN HomeOrEmpty ELSE At(parts, 2) IN
    IF CanEnter(w.cwd, targetDir) THEN repl([w EXCEPT !.cwd = targetDir])
    ELSE repl(Log(w, 0, CdErrorText(At(parts, 2))))

\* repl with the pwd branch honouring the stdout redirection
MainSinglePwdRedirected(w, parts) ==
    LET r == parseRedirection(parts)
        cmdParts == r.cmdParts
        command == At(cmdParts, 1) IN
    CASE command = "exit" -> MainExit(w, parts)
      [] command = "echo" -> MainEcho(w, cmdParts, r)
      [] command = "pwd" ->
           IF Truthy(r.redirectFile)
           THEN repl(writeFile(w, r.redirectFile, PwdText(w.cwd)))
           ELSE repl(Log(w, 0, PwdText(w.cwd)))
      [] command = "cd" -> MainCd(w, parts)
      [] command = "history" -> MainHistory(w, cmdParts)
      [] command = "type" ->
           LET t == typeText(w.pathDirs, At(parts, 2)) IN
           IF t = "throw" THEN Crash(w) ELSE repl(Log(w, 0, t))
      [] OTHER -> MainExternalLoop(w, w.pathDirs, parts, command, r)

\* the branches of repl for a line without "|" (main.ts)
MainSingle(w, parts) ==
    LET r == parseRedirection(parts)
        cmdParts == r.cmdParts
        command == At(cmdParts, 1) IN
    CASE command = "exit" -> MainExit(w, parts)
      [] command = "echo" -> MainEcho(w, cmdParts, r)
      [] command = "pwd" -> repl(Log(w, 0, PwdText(w.cwd)))
      [] command = "cd" -> MainCd(w, parts)
      [] command = "history" -> MainHistory(w, cmdParts)
      [] command = "type" ->
           LET t == typeText(w.pathDirs, At(parts, 2)) IN
           IF t = "throw" THEN Crash(w) ELSE repl(Log(w, 0, t))
      [] OTHER -> MainExternalLoop(w, w.pathDirs, parts, command, r)

\* the session's subscriber is handed an error
SessionError(w) == [w EXCEPT !.signals = @ + 1, !.shell = "prompt"]

\* the session's exit of the reactive version: saveHistoryToFile$(HISTFILE,
\* commandHistory, lastAppendedIndex), then process.exit
SessionExit(w, parts) ==
    LET code == IF Truthy(At(parts, 2)) THEN parseInt(At(parts, 2)) ELSE 0
        newCommands == SliceFrom(w.commandHistory, w.lastAppendedIndex) IN
    IF HISTFILE = "" \/ newCommands = <<>>
    THEN [w EXCEPT !.shell = "exited", !.exitCode = code]
    ELSE [w EXCEPT !.pending = @ \cup
            {FsTask(0, "save", HISTFILE, joinLines(newCommands), code, TopSink)}]

\* handleOutput$(output, redirection) of echo, then the map to the index
handleOutputRx(w, output, r, idx) ==
    CASE Truthy(r.redirectFile) ->
           [w EXCEPT !.pending = @ \cup
               {FsTask(0, "write", r.redirectFile, output, idx, TopSink)}]
      [] Truthy(r.appendFile) ->
           [w EXCEPT !.pending = @ \cup
               {FsTask(0, "append", r.appendFile, output, idx, TopSink)}]
      [] Truthy(r.stderrRedirectFile) ->
           [Log(w, 0, output) EXCEPT !.pending = @ \cup
               {FsTask(0, "write", r.stderrRedirectFile, <<>>, idx, TopSink)}]
      [] Truthy(r.stderrAppendFile) ->
           [Log(w, 0, output) EXCEPT !.pending = @ \cup
               {FsTask(0, "access", r.stderrAppendFile, <<>>, idx, TopSink)}]
      [] OTHER -> Emit(Log(w, 0, output), TopSink, idx)

\* executeProcess$: the child of a single external command, the stream its
\* redirection targets piped, the others inherited
executeProcessRx(w, command, r) ==
    LET op == CASE Truthy(r.redirectFile) -> ">"
                [] Truthy(r.appendFile) -> ">>"
                [] Truthy(r.stderrRedirectFile) -> "2>"
                [] Truthy(r.stderrAppendFile) -> "2>>"
                [] OTHER -> ""
        file == CASE op = ">" -> r.redirectFile
                  [] op = ">>" -> r.appendFile
                  [] op = "2>" -> r.stderrRedirectFile
                  [] op = "2>>" -> r.stderrAppendFile
                  [] OTHER -> ""
        p == [Pending("proc", 0, command, "single", "inherit",
                      IF op \in {">", ">>"} THEN "pipe" ELSE "inherit",
                      <<>>, -1, TopSink, {})
                EXCEPT !.watched = TRUE, !.op = op, !.spliced = FALSE, !.dirs = {file},
                       !.args = Rest(r.cmdParts),
                       !.stderr = IF op \in {"2>", "2>>"} THEN "pipe" ELSE "inherit"]
    IN  [w EXCEPT !.pending = @ \cup {p}]

\* the close listener of executeProcess$: the piped stream goes to the file,
\* and the value is emitted when the write is done
ProcessOnClose(w, p) ==
    LET stdout == ProgOut(p.name, <<>>)
        stderr == ProgErr(p.name)
        file == CHOOSE f \in p.dirs : TRUE IN
    CASE p.op = "" -> Emit(ChildWrite(ChildWrite(w, 0, stdout), 0, stderr), TopSink, -1)
      [] p.op = ">" ->
           [ChildWrite(w, 0, stderr) EXCEPT !.pending = @ \cup
               {FsTask(0, "write", file, stdout, -1, TopSink)}]
      [] p.op = ">>" ->
           [ChildWrite(w, 0, stderr) EXCEPT !.pending = @ \cup
               {FsTask(0, "append", file, stdout, -1, TopSink)}]
      [] p.op = "2>" ->
           [ChildWrite(w, 0, stdout) EXCEPT !.pending = @ \cup
               {FsTask(0, "write", file, stderr, -1, TopSink)}]
      [] OTHER ->
           [ChildWrite(w, 0, stdout) EXCEPT !.pending = @ \cup
               {FsTask(0, "append", file, stderr, -1, TopSink)}]

\* the cd branch of executeBuiltinCommand$ (the reactive executor)
RxCd(w, cmdParts, idx) ==
    LET targetDir == IF At(cmdParts, 2) = "~" THEN HomeOrEmpty ELSE At(cmdParts, 2) IN
    IF CanEnter(w.cwd, targetDir) THEN Emit([w EXCEPT !.cwd = targetDir], TopSink, idx)
    ELSE Emit(Log(w, 0, CdErrorText(At(cmdParts, 2))), TopSink, idx)

\* executeCommand$ for a line without "|" (the reactive executor)
RxSingle(w, parts) ==
    LET r == parseRedirection(parts)
        cmdParts == r.cmdParts
        command == At(cmdParts, 1)
        idx == w.lastAppendedIndex IN
    CASE command = "exit" -> SessionExit(w, parts)
      [] command = "echo" -> handleOutputRx(w, EchoText(Rest(cmdParts)), r, idx)
      [] command = "pwd" -> Emit(Log(w, 0, PwdText(w.cwd)), TopSink, idx)
      [] command = "cd" -> RxCd(w, cmdParts, idx)
      [] command = "type" ->
           LET t == typeText(w.pathDirs, At(cmdParts, 2)) IN
           IF t = "throw" THEN Crash(w) ELSE Emit(Log(w, 0, t), TopSink, idx)
      [] command = "history" -> executeHistoryCommandRx(w, 0, Rest(cmdParts), idx, TopSink)
      [] OTHER ->
           LET cmdPath == findCommand(w.pathDirs, command) IN
           IF cmdPath = "throw" THEN Crash(w)
           ELSE IF cmdPath = ""
           THEN Emit(Log(w, 0, CommandNotFoundText(command)), TopSink, -1)
           ELSE executeProcessRx(w, command, r)

\* the load of HISTFILE leaving lastAppendedIndex at 0
loadHistoryKeepIndex(w) ==
    IF HISTFILE # "" /\ Readable(w, HISTFILE)
    THEN [w EXCEPT !.commandHistory = @ \o splitNonBlank(w.files[HISTFILE])]
    ELSE w

\* the load of HISTFILE when the shell starts: the non-blank lines join the
\* history and lastAppendedIndex becomes its length; a failed read is swallowed
loadHistoryFromFile(w) ==
    IF HISTFILE # "" /\ Readable(w, HISTFILE)
    THEN LET loaded == w.commandHistory \o splitNonBlank(w.files[HISTFILE]) IN
         [w EXCEPT !.commandHistory = loaded, !.lastAppendedIndex = Len(loaded)]
    ELSE w

\* the question callback looking for a redirection before it looks for "|"
HandleLineRedirectsFirst(w, parts) ==
    IF parseRedirection(parts).cmdParts # parts
    THEN IF impl = "main" THEN MainSingle(w, parts) ELSE RxSingle(w, parts)
    ELSE IF \E i \in 1..Len(parts) : parts[i] = "|"
    THEN LET w1 == [w EXCEPT !.commands = splitIntoCommands(parts)] IN
         CASE impl = "main" -> executeMultiPipeline(w1)
           [] impl = "cb" -> executeMultiPipelineCb(w1)
           [] OTHER -> executePipelineRx(w1)
    ELSE IF impl = "main" THEN MainSingle(w, parts) ELSE RxSingle(w, parts)

\* the question callback: the line joins the history, is split at its "|"
\* tokens and is run
HandleLine(w, parts) ==
    IF \E i \in 1..Len(parts) : parts[i] = "|"
    THEN LET w1 == [w EXCEPT !.commands = splitIntoCommands(parts)] IN
         CASE impl = "main" -> executeMultiPipeline(w1)
           [] impl = "cb" -> executeMultiPipelineCb(w1)
           [] OTHER -> executePipelineRx(w1)
    ELSE IF impl = "main" THEN MainSingle(w, parts) ELSE RxSingle(w, parts)

\* an error event is due: it is dispatched before any other event
ErrorDue == \E p \in pending : p.k = "proc" /\ p.failed

Alive == shell \notin {"crashed", "exited"}

ReadLine(parts) ==
    /\ shell = "prompt"
    /\ lineNo < MaxLines
    /\ pending = {}
    /\ lineNo' = lineNo + 1
    /\ cmdLine' = parts
    /\ Commit(HandleLine(
          [World EXCEPT !.shell = "busy",
                        !.commandHistory = IF parts # <<>> THEN Append(@, lineNo + 1) ELSE @,
                        !.commands = <<>>, !.strategy = "none", !.closedGates = {},
                        !.out = EmptyBag, !.started = NoStage, !.events = <<>>,
                        !.finished = NoStage, !.signals = 0, !.driven = {}],
          parts))

\* output = data.toString() in the place of output += data.toString()
onDataOverwrites(output, data) == data

\* the data listener of a relay stage: output += data.toString()
onData(output, data) == output \o data

\* a data event of the stdout of a relay stage that is not the last: the
\* next chunk the child wrote, one line at a time, reaches the listener
DataChunk(p) ==
    /\ Alive /\ ~ErrorDue
    /\ p.k = "proc" /\ p.mode = "relay" /\ p.stdout = "pipe" /\ ~p.failed
    /\ p.got < Len(ProgOut(p.name, p.input))
    /\ LET data == << ProgOut(p.name, p.input)[p.got + 1] >>
           q == [p EXCEPT !.got = @ + 1, !.output = onData(@, data)] IN
       Commit([World EXCEPT !.pending = (@ \ {p}) \cup {q}])
    /\ UNCHANGED << lineNo, cmdLine >>

\* whether the child can come to its end: a program that reads its stdin
\* ends at end-of-input only
CanExit(p) ==
    \/ ~ReadsStdin(p.name)
    \/ p.stdin = "inherit"
    \/ p.mode = "relay" /\ p.ended
    \/ /\ p.mode = "piped"
       /\ p.spliced
       /\ ~\E q \in pending : q.k = "proc" /\ q.pos = p.pos - 1

\* the close event of a child: it comes when the process has ended and its
\* stdio streams are closed, so behind the last data event
ProcClose(p) ==
    /\ Alive /\ ~ErrorDue
    /\ p.k = "proc" /\ ~p.failed /\ CanExit(p)
    /\ (p.mode = "relay" /\ p.stdout = "pipe") => p.got = Len(ProgOut(p.name, p.input))
    /\ LET output == IF p.mode = "relay"
                     THEN IF p.stdout = "pipe" THEN p.output ELSE ProgOut(p.name, p.input)
                     ELSE PipedOutput(commands, p.pos)
           w0 == [World EXCEPT !.pending = @ \ {p}]
           w1 == FinishStage(IF p.stdout = "inherit" THEN ChildWrite(w0, p.pos, output) ELSE w0,
                             p.pos)
       IN  Commit(
             IF p.mode = "single" THEN ProcessOnClose(w0, p)
             ELSE IF ~p.watched THEN w1
             ELSE IF p.mode = "piped" THEN PipedSignal(w1)
             ELSE CASE impl = "main" -> MainOnClose(w1, p, output)
                    [] impl = "cb" -> CbOnClose(w1, p, output)
                    [] OTHER -> RxOnClose(w1, p, output))
    /\ UNCHANGED << lineNo, cmdLine >>

\* the error event of a child whose spawn failed: no listener is installed
\* on a pipeline stage, so the event is thrown
SpawnError(p) ==
    /\ Alive
    /\ p.k = "proc" /\ p.failed
    /\ Commit(Crash(World))
    /\ UNCHANGED << lineNo, cmdLine >>

\* EPIPE on the stdin of a child that ended without reading the relayed
\* input: the stream's error event has no listener either
BrokenPipe(p) ==
    /\ Alive /\ ~ErrorDue
    /\ p.k = "proc" /\ p.mode = "relay" /\ p.input # <<>> /\ ~ReadsStdin(p.name)
    /\ Commit(Crash(World))
    /\ UNCHANGED << lineNo, cmdLine >>

\* a pending fs operation of the reactive version is done, or has failed
FsDone(t) ==
    /\ Alive /\ ~ErrorDue
    /\ t.k = "fs"
    /\ LET w0 == [World EXCEPT !.pending = @ \ {t}] IN
       Commit(
         CASE t.op = "history-a" ->
                IF Writable(t.name)
                THEN RxDeliver(appendFile(w0, t.name, t.input), t.pos, <<>>,
                               Len(commandHistory), t.sink)
                ELSE RxDeliver(w0, t.pos, <<>>, t.idx, t.sink)
           [] t.op = "history-r" ->
                IF Readable(w0, t.name)
                THEN RxDeliver([w0 EXCEPT !.commandHistory = @ \o splitNonBlank(w0.files[t.name])],
                               t.pos, <<>>, t.idx, t.sink)
                ELSE RxDeliver(w0, t.pos, <<>>, t.idx, t.sink)
           [] t.op = "history-w" ->
                IF Writable(t.name)
                THEN RxDeliver(writeFile(w0, t.name, t.input), t.pos, <<>>, t.idx, t.sink)
                ELSE RxDeliver(w0, t.pos, <<>>, t.idx, t.sink)
           [] t.op = "write" ->
                IF Writable(t.name) THEN Emit(writeFile(w0, t.name, t.input), t.sink, t.idx)
                ELSE SessionError(w0)
           [] t.op = "append" ->
                IF Writable(t.name) THEN Emit(appendFile(w0, t.name, t.input), t.sink, t.idx)
                ELSE SessionError(w0)
           [] t.op = "access" ->
                IF t.name \in w0.exists \/ t.name \in DirNames THEN Emit(w0, t.sink, t.idx)
                ELSE [w0 EXCEPT !.pending = @ \cup
                        {FsTask(0, "write", t.name, <<>>, t.idx, t.sink)}]
           [] OTHER ->
                \* saveHistoryToFile$ is done, its failure caught: process.exit
                [(IF Writable(t.name) THEN appendFile(w0, t.name, t.input) ELSE w0)
                   EXCEPT !.shell = "exited", !.exitCode = t.idx])
    /\ UNCHANGED << lineNo, cmdLine >>

\* one fs.stat of findCommand$ is done (reactive version): a match is emitted
StatDone(t, dir) ==
    /\ Alive /\ ~ErrorDue
    /\ t.k = "stat" /\ dir \in t.dirs
    /\ LET left == t.dirs \ {dir}
           w1 == [World EXCEPT !.pending =
                     (@ \ {t}) \cup (IF left = {} THEN {} ELSE {[t EXCEPT !.dirs = left]})]
       IN  Commit(IF Installed(dir, t.name)
                  THEN RxMap(w1, t.pos, TypeIsText(t.name, dir), t.idx,
                             [t.sink EXCEPT !.lin = Append(@, dir)])
                  ELSE w1)
    /\ UNCHANGED << lineNo, cmdLine >>

\* the module body of main.ts before its first repl() call
Startup ==
    /\ shell = "starting"
    /\ Commit([loadHistoryFromFile(World) EXCEPT !.shell = "prompt"])
    /\ UNCHANGED << lineNo, cmdLine >>

Next ==
    \/ /\ shell = "prompt" /\ lineNo < MaxLines /\ pending = {}
       /\ \E parts \in Lines(impl, lineNo + 1) : ReadLine(parts)
    \/ \E p \in pending : DataChunk(p)
    \/ \E p \in pending : ProcClose(p)
    \/ \E p \in pending : SpawnError(p)
    \/ \E p \in pending : BrokenPipe(p)
    \/ \E t \in pending : FsDone(t)
    \/ \E t \in pending : \E dir \in Dirs : StatDone(t, dir)

Spec == Init /\ [][Next]_vars

\* ------------------------------------------------- sessions on the files
\* The shell is started with HISTFILE unset, naming a file or naming a
\* directory, the files existing or not, and runs single commands.
FileInit ==
    /\ impl \in {"main", "rx"}
    /\ pathDirs = <<"d1", "d2">>
    /\ shell = "starting"
    /\ lineNo = 0
    /\ commandHistory = <<>>
    /\ lastAppendedIndex = 0
    /\ exists \in SUBSET FileNames
    /\ files = [n \in FileNames |->
                  IF n \notin exists THEN <<>> ELSE IF n = "f" THEN OldHistory ELSE OldText]
    /\ commands = <<>>
    /\ strategy = "none"
    /\ pending = {}
    /\ closedGates = {}
    /\ out = EmptyBag
    /\ started = NoStage
    /\ finished = NoStage
    /\ signals = 0
    /\ driven = {}
    /\ HISTFILE \in {"", "f", "d"}
    /\ exitCode = -1
    /\ cmdLine = <<>>
    /\ cwd = "start"
    /\ HOME \in {"", "home"}
    /\ scan = NoScan
    /\ events = <<>>
    /\ ret = [fn |-> "none", arg |-> "", r |-> parseRedirection(<<>>), path |-> ""]

FileNext ==
    \/ Startup
    \/ /\ shell = "prompt" /\ lineNo < MaxLines /\ pending = {}
       /\ \E parts \in FileLines(lineNo + 1) : ReadLine(parts)
    \/ \E p \in pending : ProcClose(p)
    \/ \E t \in pending : FsDone(t)

FileSpec == FileInit /\ [][FileNext]_vars

\* ------------------------------------------- functions called on their own
\* parseRedirection is called on a token list and findCommand on a name
\* under a PATH; the shell itself stands still.
PureInit ==
    /\ impl = "main"
    /\ pathDirs \in PurePaths
    /\ shell = "prompt"
    /\ lineNo = 0
    /\ commandHistory = <<>>
    /\ lastAppendedIndex = 0
    /\ exists = {}
    /\ files = [n \in FileNames |-> <<>>]
    /\ commands = <<>>
    /\ strategy = "none"
    /\ pending = {}
    /\ closedGates = {}
    /\ out = EmptyBag
    /\ started = NoStage
    /\ finished = NoStage
    /\ signals = 0
    /\ driven = {}
    /\ HISTFILE = ""
    /\ exitCode = -1
    /\ cmdLine \in TokenLists
    /\ cwd = "start"
    /\ HOME = "home"
    /\ scan = NoScan
    /\ events = <<>>
    /\ ret = [fn |-> "none", arg |-> "", r |-> parseRedirection(<<>>), path |-> ""]

Frame ==
    UNCHANGED << impl, pathDirs, shell, lineNo, commandHistory, lastAppendedIndex, files,
                 commands, strategy, pending, closedGates, out, started, finished,
                 signals, driven, HISTFILE, exists, exitCode, cmdLine, cwd, HOME, scan, events >>

CallParseRedirection ==
    /\ ret.fn = "none"
    /\ ret' = [ret EXCEPT !.fn = "parseRedirection", !.r = parseRedirection(cmdLine)]
    /\ Frame

CallFindCommand(name) ==
    /\ ret.fn = "none"
    /\ ret' = [ret EXCEPT !.fn = "findCommand", !.arg = name,
                          !.path = findCommand(pathDirs, name)]
    /\ Frame

PureNext ==
    \/ CallParseRedirection
    \/ \E name \in PureNames : CallFindCommand(name)

PureSpec == PureInit /\ [][PureNext]_vars

\* --------------------------------------------------- parseCommand called
\* parseCommand is called on an input line and runs turn by turn.
ParseInit ==
    /\ impl = "main"
    /\ pathDirs = <<>>
    /\ shell = "prompt"
    /\ lineNo = 0
    /\ commandHistory = <<>>
    /\ lastAppendedIndex = 0
    /\ exists = {}
    /\ files = [n \in FileNames |-> <<>>]
    /\ commands = <<>>
    /\ strategy = "none"
    /\ pending = {}
    /\ closedGates = {}
    /\ out = EmptyBag
    /\ started = NoStage
    /\ finished = NoStage
    /\ signals = 0
    /\ driven = {}
    /\ HISTFILE = ""
    /\ exitCode = -1
    /\ cmdLine = <<>>
    /\ cwd = "start"
    /\ HOME = "home"
    /\ scan \in {StartScan(input) : input \in Inputs(MaxChars)}
    /\ events = <<>>
    /\ ret = [fn |-> "none", arg |-> "", r |-> parseRedirection(<<>>), path |-> ""]

ScanFrame ==
    UNCHANGED << impl, pathDirs, shell, lineNo, commandHistory, lastAppendedIndex, files,
                 commands, strategy, pending, closedGates, out, started, finished,
                 signals, driven, HISTFILE, exists, exitCode, cmdLine, cwd, HOME, events, ret >>

ScanChar ==
    /\ ~scan.done /\ scan.i <= Len(scan.input)
    /\ scan' = parseCommandStep(scan)
    /\ ScanFrame

ScanEnd ==
    /\ ~scan.done /\ scan.i > Len(scan.input)
    /\ scan' = parseCommandEnd(scan)
    /\ ScanFrame

ParseNext == ScanChar \/ ScanEnd

ParseSpec == ParseInit /\ [][ParseNext]_vars

\* ------------------------------------------------------------ properties
\* the name of stage i of the line being run
NameOf(i) == At(commands[i], 1)

\* stage i is external and no directory of PATH holds its command
Unresolved(i) ==
    /\ NameOf(i) # UNDEF
    /\ NameOf(i) \notin {"echo", "exit", "type", "pwd", "cd", "history"}
    /\ \A k \in 1..Len(pathDirs) : ~Installed(pathDirs[k], NameOf(i))

\* how many writes of the terminal satisfy Sel
Count(Sel(_)) ==
    LET S == {r \in BagToSet(out) : Sel(r)} IN
    BagCardinality([r \in S |-> CopiesIn(r, out)])

\* some event of the running line can still happen
EventEnabled ==
    \/ \E p \in pending : ENABLED ProcClose(p)
    \/ \E p \in pending : ENABLED SpawnError(p)
    \/ \E p \in pending : ENABLED BrokenPipe(p)
    \/ \E t \in pending : ENABLED FsDone(t)
    \/ \E t \in pending : \E dir \in Dirs : ENABLED StatDone(t, dir)

\* C1: in Sequential-Relay the completion signal is delivered only after the
\* final stage has finished: once the run has signalled completion, no child
\* process of it is alive and no asynchronous operation of it is pending.
C1_SignalAfterLastStage ==
    (strategy = "relay" /\ signals > 0) => pending = {}

\* C2: a pipeline runs under Sequential-Relay if and only if the command name
\* of at least one stage is one of echo, exit, type, pwd, cd, history, and
\* under Concurrent-Piped otherwise; no stage of the run is driven by the
\* other strategy.
C2_StrategyChoice ==
    commands # <<>> =>
        LET someBuiltin ==
                \E i \in 1..Len(commands) :
                    NameOf(i) \in {"echo", "exit", "type", "pwd", "cd", "history"}
        IN  /\ strategy = (IF someBuiltin THEN "relay" ELSE "piped")
            /\ driven \subseteq {strategy}

\* a builtin behind an external first stage has run under Sequential-Relay
C2_Witness ==
    /\ commands = << <<"ls">>, <<"echo", "hi">> >>
    /\ strategy = "relay"
    /\ driven = {"relay"}
    /\ finished[2] > 0

\* C3: in Sequential-Relay stage i+1 never starts before stage i has
\* completed: once stage i+1 was started (handler call or spawn), stage i has
\* returned a result or closed and nothing of stage i is still running.
C3_StrictOrder ==
    strategy = "relay" =>
        \A i \in 1..(MaxStages - 1) :
            started[i + 1] > 0 =>
                finished[i] > 0 /\ \A p \in pending : p.pos # i

\* C4: in Concurrent-Piped, when the command of some stage cannot be
\* resolved, no process of the pipeline is spawned at all.
C4_ResolveBeforeSpawn ==
    (strategy = "piped" /\ \E i \in 1..Len(commands) : Unresolved(i))
        => \A i \in 1..MaxStages : started[i] = 0

\* C5: in Sequential-Relay, when the command of a stage is not a builtin and
\* cannot be resolved, at most one line "<name>: command not found" is
\* printed for it, it is printed together with the completion signal, and no
\* stage after it is ever started.
C5_OneNotFound ==
    strategy = "relay" =>
        \A i \in 1..Len(commands) :
            Unresolved(i) =>
                LET IsNotFound(r) == r.by = "log" /\ r.pos = i IN
                /\ Count(IsNotFound) <= 1
                /\ Count(IsNotFound) = 1 => signals > 0
                /\ \A j \in (i + 1)..Len(commands) : started[j] = 0

\* C6: in Sequential-Relay the output of a stage before the last never
\* reaches the terminal, and the output of the last stage is written at most
\* once.
C6_LastStageOnce ==
    strategy = "relay" =>
        LET Early(r) == r.by # "log" /\ r.pos < Len(commands)
            Final(r) == r.by # "log" /\ r.pos = Len(commands)
        IN  Count(Early) = 0 /\ Count(Final) <= 1

C8_OnlyExitEnds ==
    impl = "main" => shell # "crashed"

\* C9: the error event of a child whose spawn failed, or of the stdin of a
\* child that did not read the relayed input, never terminates the shell.
C9_ChildFailureSurvived ==
    [][ (\E p \in pending : SpawnError(p) \/ BrokenPipe(p)) => shell' # "crashed" ]_vars

\* C10: whatever the sequence of lines, and whether history -a runs alone or
\* as a stage of a pipeline, the file never receives the same history entry
\* twice.
C10_NoDuplicateEntry ==
    \A f \in FileNames :
        \A i, j \in 1..Len(files[f]) : i # j => files[f][i] # files[f][j]

\* C11: the step that ends the process is the step of an `exit [code]` line:
\* the code is the one given, 0 when none is; when HISTFILE names a file, the
\* file then holds what it held followed by the history entries at indices >=
\* lastAppendedIndex, in order, and no other file is touched; when HISTFILE is
\* unset or cannot be appended to, no file changes and the process ends all the
\* same.  An exit line never leaves the shell at a prompt: it has ended, or the
\* append that precedes the end is pending and can complete.
C11_ExitFlushesThenEnds ==
    /\ [][ (exitCode = -1 /\ exitCode' # -1) =>
             /\ cmdLine' \in { <<"exit">>, <<"exit", "2">> }
             /\ exitCode' = (IF cmdLine' = <<"exit">> THEN 0 ELSE 2)
             /\ shell' = "exited"
             /\ LET unsaved == SliceFrom(commandHistory', lastAppendedIndex) IN
                files' = IF HISTFILE = "f" THEN [files EXCEPT !["f"] = @ \o unsaved]
                         ELSE files
             /\ HISTFILE = "f" => "f" \in exists' ]_vars
    /\ [](At(cmdLine, 1) = "exit" =>
             \/ shell = "exited"
             \/ ENABLED (\E t \in pending : t.op = "save" /\ FsDone(t)))

\* exit 2 has ended the process after a session that started with loaded
\* entries: HISTFILE holds its old lines and behind them the lines of the session
C11_Witness ==
    /\ shell = "exited" /\ exitCode = 2 /\ HISTFILE = "f"
    /\ lastAppendedIndex = 2
    /\ files["f"] = OldHistory \o SliceFrom(commandHistory, 2)
    /\ Len(commandHistory) = 4

\* an entry that stood in HISTFILE before the shell started
IsOld(e) == e # BlankLine /\ \E i \in 1..Len(OldHistory) : OldHistory[i] = e

\* the entries loaded when the shell started: the old entries at the head of
\* the history (every line typed is an entry of its own behind them)
LoadedLength ==
    CHOOSE n \in 0..Len(commandHistory) :
        /\ \A i \in 1..n : IsOld(commandHistory[i])
        /\ n < Len(commandHistory) => ~IsOld(commandHistory[n + 1])

\* no history -r has read old entries into the history a second time
NoReadBack == \A i \in (LoadedLength + 1)..Len(commandHistory) : ~IsOld(commandHistory[i])

\* how often entry e stands in a history file
Occurrences(e, content) == Cardinality({i \in 1..Len(content) : content[i] = e})

Completes == signals' = 1 /\ (lineNo' # lineNo \/ signals = 0)

\* the history once the line of this step has joined it
Typed == IF lineNo' # lineNo THEN Append(commandHistory, lineNo') ELSE commandHistory

\* C13: the step that completes `history -r f` leaves the history as the
\* typed lines followed by the non-blank lines of f in file order (by nothing
\* when f cannot be read), and changes neither lastAppendedIndex nor any file;
\* the step that completes `history -w f` leaves f holding exactly the whole
\* history, one entry per line, whatever it held, and changes neither the
\* history, nor lastAppendedIndex, nor any other file.
C13_ReadWriteFrame ==
    [][ /\ (Completes /\ cmdLine' = <<"history", "-r", "f">>) =>
             /\ commandHistory' =
                  Typed \o (IF "f" \in exists
                            THEN SelectSeq(files["f"], LAMBDA e : e # BlankLine)
                            ELSE <<>>)
             /\ lastAppendedIndex' = lastAppendedIndex
             /\ files' = files /\ exists' = exists
        /\ (Completes /\ cmdLine' = <<"history", "-w", "f">>) =>
             /\ files' = [files EXCEPT !["f"] = Typed]
             /\ exists' = exists \cup {"f"}
             /\ commandHistory' = Typed
             /\ lastAppendedIndex' = lastAppendedIndex ]_vars

\* history -r f has read two entries behind the first typed line, and
\* history -w f has then written all four entries over the three old lines
C13_Witness ==
    /\ HISTFILE = "" /\ lastAppendedIndex = 0
    /\ cmdLine = <<"history", "-w", "f">> /\ signals = 1
    /\ commandHistory = << 1, 101, 102, 2 >>
    /\ files["f"] = commandHistory

\* C14: the step that completes a history -r, -w or -a whose file operation
\* fails (d is a directory) has printed exactly one line, has changed neither
\* the history nor lastAppendedIndex nor any file, and leaves the shell at its
\* next prompt.
C14_FailureReported ==
    [][ (Completes /\ cmdLine' \in { <<"history", "-r", "d">>, <<"history", "-w", "d">>,
                                      <<"history", "-a", "d">> }) =>
             /\ BagCardinality(out') = 1
             /\ \A wr \in BagToSet(out') : Len(wr.text) = 1
             /\ commandHistory' = Typed
             /\ lastAppendedIndex' = lastAppendedIndex
             /\ files' = files /\ exists' = exists
             /\ shell' = "prompt" ]_vars

\* what the terminal was sent while the line ran, when it is one write at most
Printed(o) == IF o = EmptyBag THEN <<>> ELSE (CHOOSE wr \in BagToSet(o) : TRUE).text

\* C15: the step that completes `history` or `history n` has printed, with L
\* the length of the history (the line itself included) and k = L for the
\* plain form, k = min(n, L) for n in 0, 1, 2, 7, exactly k lines: the entries
\* at the 1-based places L-k+1 .. L, in order, each with its place in the
\* whole history; and the history is what it was.
C15_Listing ==
    [][ (Completes /\ cmdLine' \in { <<"history">>, <<"history", "0">>, <<"history", "1">>,
                                      <<"history", "2">>, <<"history", "7">> }) =>
          LET L == Len(Typed)
              n == CASE cmdLine' = <<"history">> -> L
                     [] cmdLine' = <<"history", "0">> -> 0
                     [] cmdLine' = <<"history", "1">> -> 1
                     [] cmdLine' = <<"history", "2">> -> 2
                     [] OTHER -> 7
              k == IF n < L THEN n ELSE L
          IN  /\ BagCardinality(out') <= 1
              /\ Printed(out') =
                    [j \in 1..k |-> Line("entry", << L - k + j, Typed[L - k + j] >>)]
              /\ commandHistory' = Typed
              /\ lastAppendedIndex' = lastAppendedIndex ]_vars

\* history 2 has listed the entries 3 and 4 of a history of four
C15_Witness ==
    /\ cmdLine = <<"history", "2">> /\ signals = 1
    /\ Len(commandHistory) = 4
    /\ Printed(out) = << Line("entry", << 3, commandHistory[3] >>),
                         Line("entry", << 4, commandHistory[4] >>) >>

\* the single external commands with a redirection that the sessions run
RedirectedExternal ==
    { l \in FileSessionLines \cup FileLastLines :
        Len(l) = 3 /\ l[1] \in {"warn", "ls", "big"} /\ l[2] \in RedirectOps }

\* C16: while the child of a redirected external command is alive no file
\* changes and no completion is signalled; the step that signals completion
\* leaves the target holding everything the targeted stream produced (behind
\* the old content for >>, 1>> and 2>>, instead of it for >, 1> and 2>),
\* leaves on the terminal exactly what the other stream produced, and leaves
\* no operation of the command pending.
C16_RedirectedExternal ==
    [][ /\ (\E p \in pending' : p.k = "proc") => (files' = files /\ signals' = 0)
        /\ (Completes /\ cmdLine' \in RedirectedExternal) =>
             LET name == cmdLine'[1]
                 op == cmdLine'[2]
                 toErr == op \in {"2>", "2>>"}
                 toFile == IF toErr THEN ProgErr(name) ELSE ProgOut(name, <<>>)
                 toTerminal == IF toErr THEN ProgOut(name, <<>>) ELSE ProgErr(name)
                 old == IF op \in {">>", "1>>", "2>>"} THEN files["o"] ELSE <<>>
             IN  /\ files' = [files EXCEPT !["o"] = old \o toFile]
                 /\ "o" \in exists'
                 /\ BagCardinality(out') <= 1
                 /\ Printed(out') = toTerminal
                 /\ pending' = {} ]_vars

\* C17: the value of parseRedirection on a token list: with no operator token
\* the list itself and four unset targets; otherwise, with i the place of the
\* first operator token, the tokens before place i, the token at place i + 1
\* (undefined when the operator is the last token) as the one target that the
\* operator at place i names, and the three other targets unset, whatever
\* stands behind place i + 1.
C17_FirstOperatorOnly ==
    ret.fn = "parseRedirection" =>
       LET parts == cmdLine
           r == ret.r
           isOp(t) == t \in {">", "1>", ">>", "1>>", "2>", "2>>"}
           ops == {i \in 1..Len(parts) : isOp(parts[i])}
           targets == << r.redirectFile, r.appendFile, r.stderrRedirectFile,
                         r.stderrAppendFile >>
       IN  IF ops = {}
           THEN r.cmdParts = parts /\ targets = << "", "", "", "" >>
           ELSE \E i \in ops :
                  /\ \A j \in 1..(i - 1) : ~isOp(parts[j])
                  /\ r.cmdParts = [j \in 1..(i - 1) |-> parts[j]]
                  /\ LET target == IF i < Len(parts) THEN parts[i + 1] ELSE UNDEF
                         kind == CASE parts[i] \in {">", "1>"} -> 1
                                   [] parts[i] \in {">>", "1>>"} -> 2
                                   [] parts[i] = "2>" -> 3
                                   [] OTHER -> 4
                     IN  targets = [k \in 1..4 |-> IF k = kind THEN target ELSE ""]

\* a second operator right behind the first is taken as the target
C17_Witness ==
    /\ ret.fn = "parseRedirection"
    /\ cmdLine = << "echo", "2>>", ">" >>
    /\ ret.r.cmdParts = << "echo" >>
    /\ ret.r.stderrAppendFile = ">" /\ ret.r.redirectFile = ""

\* C18: the step that completes `echo hi >> o` or `echo hi 1>> o` leaves o
\* holding what it held (nothing when it did not exist) followed by the one
\* line of this command, leaves every other file alone and has printed
\* nothing; while the write is pending nothing is printed either.
C18_EchoAppends ==
    [][ cmdLine' \in { <<"echo", "hi", ">>", "o">>, <<"echo", "hi", "1>>", "o">> } =>
          /\ out' = EmptyBag
          /\ ~Completes \/
                /\ files' = [files EXCEPT !["o"] = @ \o << Line("echo", <<"hi">>) >>]
                /\ "o" \in exists' ]_vars

\* two echo commands with >> have run on a file that held one line: it holds
\* the old line and the two new ones
C18_Witness ==
    /\ lineNo = 2 /\ signals = 1 /\ out = EmptyBag
    /\ cmdLine \in { <<"echo", "hi", ">>", "o">>, <<"echo", "hi", "1>>", "o">> }
    /\ files["o"] = OldText \o << Line("echo", <<"hi">>), Line("echo", <<"hi">>) >>

\* C19: the step that completes `echo hi 2> o` has printed the line of echo
\* and leaves o existing and empty; the step that completes `echo hi 2>> o`
\* has printed the line as well and leaves o existing with the content it had,
\* which is none when it did not exist; no other file changes.
C19_EchoStderrTarget ==
    [][ /\ cmdLine' \in { <<"echo", "hi", "2>", "o">>, <<"echo", "hi", "2>>", "o">> } =>
             /\ BagCardinality(out') = 1
             /\ Printed(out') = << Line("echo", <<"hi">>) >>
        /\ (Completes /\ cmdLine' = <<"echo", "hi", "2>", "o">>) =>
             /\ files' = [files EXCEPT !["o"] = <<>>]
             /\ exists' = exists \cup {"o"}
        /\ (Completes /\ cmdLine' = <<"echo", "hi", "2>>", "o">>) =>
             /\ files' = files
             /\ exists' = exists \cup {"o"} ]_vars

\* echo hi 2>> o has run on a file that held two lines: the text is on the
\* terminal and the file holds its two lines
C19_Witness ==
    /\ cmdLine = <<"echo", "hi", "2>>", "o">> /\ signals = 1
    /\ Printed(out) = << Line("echo", <<"hi">>) >>
    /\ files["o"] = OldText \o << Line("echo", <<"hi">>) >>

\* C20: the value of findCommand(name) under a PATH: the first directory, in
\* the order PATH lists them, whose candidate exists as a regular file with
\* an execute bit, and null ("") when PATH is unset or lists no such
\* directory; candidates that are missing, directories or files without an
\* execute bit in the directories before it do not matter.
C20_FirstQualifyingDir ==
    ret.fn = "findCommand" =>
       LET qualifies == {i \in 1..Len(pathDirs) : statSync(pathDirs[i], ret.arg) = "x"} IN
       /\ (qualifies = {}) = (ret.path = "")
       /\ qualifies # {} =>
             \E i \in qualifies :
                /\ ret.path = pathDirs[i]
                /\ \A j \in 1..(i - 1) : j \notin qualifies

\* d1 holds a file of the name without an execute bit, d2 an executable one
C20_Witness ==
    /\ ret.fn = "findCommand" /\ ret.arg = "data"
    /\ pathDirs = <<"d1", "d2">>
    /\ statSync("d1", "data") = "file"
    /\ ret.path = "d2"

\* the one line `type name` is to print under the PATH of the run
TypeLine(name) ==
    LET qualifies == {i \in 1..Len(pathDirs) : statSync(pathDirs[i], name) = "x"} IN
    IF name \in {"echo", "exit", "type", "pwd", "cd", "history"}
    THEN << Line("is a shell builtin", <<name>>) >>
    ELSE IF qualifies = {} THEN << Line("not found", <<name>>) >>
    ELSE << Line("is", << name, pathDirs[CHOOSE i \in qualifies :
                                              \A j \in qualifies : i <= j] >>) >>

\* C21: when a line has run to its end, a single `type name` has sent the
\* terminal exactly one write, the line of the name; and a `type name` that
\* ran as the last stage of a pipeline has sent exactly one write for its
\* stage, the line of the name.
C21_TypeOneLine ==
    (shell = "prompt" /\ lineNo > 0 /\ pending = {}) =>
       /\ (Len(cmdLine) = 2 /\ cmdLine[1] = "type") =>
             (BagCardinality(out) = 1 /\ Printed(out) = TypeLine(cmdLine[2]))
       /\ \A n \in 1..Len(commands) :
             (/\ n = Len(commands) /\ n > 1 /\ started[n] > 0
              /\ Len(commands[n]) = 2 /\ commands[n][1] = "type") =>
                LET stage == [wr \in {x \in BagToSet(out) : x.pos = n} |-> out[wr]] IN
                /\ BagCardinality(stage) = 1
                /\ Printed(stage) = TypeLine(commands[n][2])

\* C22: the step that completes a single command whose first token nosuch is
\* no builtin and is found in no PATH directory has sent the terminal exactly
\* one write, the line `nosuch: command not found` naming the first token
\* alone, and leaves the shell at the prompt.
C22_CommandNotFound ==
    [][ (Completes /\ cmdLine' \in { <<"nosuch">>, <<"nosuch", "arg">> }) =>
           /\ BagCardinality(out') = 1
           /\ Printed(out') = << Line("command not found", << cmdLine'[1] >>) >>
           /\ shell' = "prompt" ]_vars

\* C23: the step that completes `cd dir` with a dir that cannot be entered (a
\* missing directory, a file, `~` with HOME unset) has sent the terminal
\* exactly one write, `cd: <dir>: No such file or directory` with dir as
\* typed, leaves the working directory what it was and the shell at the
\* prompt; the step that completes `cd ~` with HOME naming a directory leaves
\* the working directory at HOME and prints nothing; so does `cd d` for the
\* directory d.
C23_Cd ==
    [][ (Completes /\ Len(cmdLine') = 2 /\ cmdLine'[1] = "cd") =>
           LET dir == cmdLine'[2]
               fails == dir \in {"nodir", "f"} \/ (dir = "~" /\ HOME = "") IN
           /\ shell' = "prompt"
           /\ fails => /\ BagCardinality(out') = 1
                       /\ Printed(out') = << Line("cd: No such file or directory", <<dir>>) >>
                       /\ cwd' = cwd
           /\ ~fails => /\ out' = EmptyBag
                        /\ cwd' = IF dir = "~" THEN HOME ELSE dir ]_vars

\* `cd nodir` was refused with its one line, and `cd ~` was refused as typed
\* when HOME is unset
C23_Witness ==
    /\ shell = "prompt" /\ signals = 1 /\ cwd = "start"
    /\ cmdLine = <<"cd", "~">> /\ HOME = ""
    /\ Printed(out) = << Line("cd: No such file or directory", <<"~">>) >>

\* the maximal runs of characters other than the space in an input, as
\* pairs of their first and last place
Runs(input) ==
    {r \in (1..Len(input)) \X (1..Len(input)) :
        /\ r[1] <= r[2]
        /\ \A k \in r[1]..r[2] : input[k] # " "
        /\ (r[1] = 1 \/ input[r[1] - 1] = " ")
        /\ (r[2] = Len(input) \/ input[r[2] + 1] = " ")}

Plain(input) == \A k \in 1..Len(input) : input[k] \notin {"'", "\"", "\\"}

\* C24: for an input holding no quote character and no backslash, the list
\* parseCommand returns has one token per maximal run of characters other
\* than the space, the k-th token being the k-th run from the left: the split
\* on runs of spaces, with no empty token.
C24_SplitOnSpaces ==
    (scan.done /\ Plain(scan.input)) =>
       /\ Len(scan.parts) = Cardinality(Runs(scan.input))
       /\ \A r \in Runs(scan.input) :
             scan.parts[Cardinality({q \in Runs(scan.input) : q[1] <= r[1]})]
                = SubSeq(scan.input, r[1], r[2])

\* `a  b` with two spaces came back as the two tokens a and b
C24_Witness ==
    /\ scan.done /\ scan.input = <<"a", " ", " ", "b">>
    /\ scan.parts = << <<"a">>, <<"b">> >>

\* the turn of the loop on a backslash that has a character behind it
AtBackslash ==
    /\ ~scan.done /\ scan.i + 1 <= Len(scan.input)
    /\ scan.input[scan.i] = "\\"

\* C25: a turn of parseCommand on a backslash followed by a character c:
\* with no quote open, and inside double quotes when c is the double quote
\* or a backslash, the token gains c alone and the scan goes on behind c
\* (so c neither splits, opens nor closes); inside double quotes before any
\* other c, and inside single quotes always, the token gains the backslash
\* and the scan goes on at c, so that inside single quotes a quote behind a
\* backslash closes the section on its turn. The quote state and the tokens
\* pushed stay what they were. In the results: `a\ b` is the one token
\* `a b`, `\'a` is `'a`, `"\a"` is `\a`, `"\""` is `"` and `'\'a` is `\a`.
C25_Backslash ==
    /\ [][ AtBackslash =>
             LET c == scan.input[scan.i + 1]
                 dropped == \/ scan.quoteChar = ""
                            \/ (scan.quoteChar = "\"" /\ c \in {"\"", "\\"}) IN
             /\ scan'.quoteChar = scan.quoteChar /\ scan'.parts = scan.parts
             /\ dropped => /\ scan'.current = Append(scan.current, c)
                           /\ scan'.i = scan.i + 2
             /\ ~dropped => /\ scan'.current = Append(scan.current, "\\")
                            /\ scan'.i = scan.i + 1 ]_vars
    /\ [][ (~scan.done /\ scan.i <= Len(scan.input) /\ scan.quoteChar = "'"
            /\ scan.input[scan.i] = "'") => scan'.quoteChar = "" ]_vars
    /\ [](scan.done =>
            /\ scan.input = <<"a", "\\", " ", "b">> => scan.parts = << <<"a", " ", "b">> >>
            /\ scan.input = <<"\\", "'", "a">> => scan.parts = << <<"'", "a">> >>
            /\ scan.input = <<"\"", "\\", "a", "\"">> => scan.parts = << <<"\\", "a">> >>
            /\ scan.input = <<"\"", "\\", "\"", "\"">> => scan.parts = << <<"\"">> >>
            /\ scan.input = <<"'", "\\", "'", "a">> => scan.parts = << <<"\\", "a">> >>)

\* `"\a"` came back as the one token `\a`
C25_Witness ==
    /\ scan.done /\ scan.input = <<"\"", "\\", "a", "\"">>
    /\ scan.parts = << <<"\\", "a">> >>

\* the turn of the loop on a character that no backslash branch takes
AtPlainTurn ==
    /\ ~scan.done /\ scan.i <= Len(scan.input)
    /\ ~(scan.input[scan.i] = "\\" /\ scan.i + 1 <= Len(scan.input))

\* C26: a turn of parseCommand on a quote character opens a quoted section
\* of that character when none is open, closes the open section when it is
\* the character that opened it, and joins the token when the other quote
\* character is open; a turn on a space inside a quoted section joins the
\* token and pushes nothing; no turn inside a quoted section pushes a token;
\* and when the input ends inside a quoted section the call returns, the
\* characters scanned since the last push being the final token. In the
\* results: `"a b` is the one token `a b`, `'a"b` is `a"b`, `"a'b"` is `a'b`.
C26_Quotes ==
    /\ [][ AtPlainTurn =>
             LET char == scan.input[scan.i] IN
             /\ (char \in {"'", "\""} /\ scan.quoteChar = "") =>
                    /\ scan'.quoteChar = char /\ scan'.current = scan.current
                    /\ scan'.parts = scan.parts
             /\ (char \in {"'", "\""} /\ scan.quoteChar = char) =>
                    /\ scan'.quoteChar = "" /\ scan'.current = scan.current
                    /\ scan'.parts = scan.parts
             /\ (char \in {"'", "\""} /\ scan.quoteChar \notin {"", char}) =>
                    /\ scan'.quoteChar = scan.quoteChar
                    /\ scan'.current = Append(scan.current, char)
             /\ (char \notin {"'", "\""}) => scan'.quoteChar = scan.quoteChar
             /\ (char = " " /\ scan.quoteChar # "") =>
                    scan'.current = Append(scan.current, " ")
             /\ scan.quoteChar # "" => scan'.parts = scan.parts ]_vars
    /\ [][ (~scan.done /\ scan.i > Len(scan.input) /\ scan.quoteChar # "") =>
             /\ scan'.done
             /\ scan'.parts = IF scan.current = <<>> THEN scan.parts
                              ELSE Append(scan.parts, scan.current) ]_vars
    /\ [](scan.done =>
            /\ scan.input = <<"\"", "a", " ", "b">> => scan.parts = << <<"a", " ", "b">> >>
            /\ scan.input = <<"'", "a", "\"", "b">> => scan.parts = << <<"a", "\"", "b">> >>
            /\ scan.input = <<"\"", "'", "b", "\"">> => scan.parts = << <<"'", "b">> >>
            /\ scan.input = <<"a", " ", "'", " ">> => scan.parts = << <<"a">>, <<" ">> >>)

\* `"a b` ended inside its quoted section and came back as the one token `a b`
C26_Witness ==
    /\ scan.done /\ scan.quoteChar = "\"" /\ scan.input = <<"\"", "a", " ", "b">>
    /\ scan.parts = << <<"a", " ", "b">> >>

\* the step is the close event of the Sequential-Relay stage p, not the last
HandsOff(p) ==
    /\ p.k = "proc" /\ p.mode = "relay" /\ p.stdout = "pipe"
    /\ finished'[p.pos] = finished[p.pos] + 1
    /\ ~\E q \in pending' : q.id = p.id

\* C27: in a Sequential-Relay run, at the close event that hands an external
\* stage over, every chunk the program wrote has arrived and the collected
\* output is those chunks in the order they were written, nothing else; an
\* external next stage spawned in that step was given exactly that as its
\* input, and the stage is gone, so no chunk of it comes later. The first
\* stage is given the empty string, and an external stage behind `echo hi`
\* the line hi.
C27_RelayHandsCompleteOutput ==
    /\ [][ \A p \in pending : HandsOff(p) =>
             LET stdout == CASE p.name = "cat" -> p.input
                             [] p.name = "ls" -> << Line("listing", <<"x">>),
                                                    Line("listing", <<"y">>) >>
                             [] OTHER -> <<>> IN
             /\ p.got = Len(stdout)
             /\ p.output = stdout
             /\ \A q \in pending' \ pending :
                   (q.k = "proc" /\ q.pos = p.pos + 1) => q.input = stdout ]_vars
    /\ [](\A p \in pending :
            (p.k = "proc" /\ p.mode = "relay") =>
               /\ p.pos = 1 => p.input = <<>>
               /\ (p.pos > 1 /\ commands[p.pos - 1] = <<"echo", "hi">>) =>
                     p.input = << Line("echo", <<"hi">>) >>)

\* ls has written two chunks and was closed; cat, the stage behind it, holds
\* both in order as its input
C27_Witness ==
    /\ Len(commands) >= 2 /\ commands[1] = <<"ls">> /\ finished[1] = 1
    /\ \E q \in pending :
          /\ q.k = "proc" /\ q.mode = "relay" /\ q.pos = 2 /\ q.name = "cat"
          /\ q.input = << Line("listing", <<"x">>), Line("listing", <<"y">>) >>

\* C28: every live external stage of a Sequential-Relay run has its stdin
\* as a pipe exactly when the input handed to it is non-empty, its stdout as
\* a pipe exactly when it is not the last stage, and, when input was handed
\* to it, holds that input written with its stdin ended.
C28_RelayStdio ==
    \A p \in pending :
       (p.k = "proc" /\ p.mode = "relay") =>
          /\ (p.stdin = "pipe") <=> (p.input # <<>>)
          /\ (p.stdout = "pipe") <=> (p.pos < Len(commands))
          /\ (p.input # <<>>) => p.ended

\* C29: every live stage of a Concurrent-Piped run belongs to a pipeline of
\* N >= 2 stages and was spawned with stderr inherited and with: stdin
\* inherited and stdout a pipe when it is the first stage; stdin a pipe and
\* stdout inherited when it is the last; stdin and stdout pipes otherwise.
C29_PipedStdio ==
    \A p \in pending :
       (p.k = "proc" /\ p.mode = "piped") =>
          LET N == Len(commands) IN
          /\ N >= 2 /\ p.pos \in 1..N
          /\ p.stderr = "inherit"
          /\ p.pos = 1 => (p.stdin = "inherit" /\ p.stdout = "pipe")
          /\ (p.pos > 1 /\ p.pos < N) => (p.stdin = "pipe" /\ p.stdout = "pipe")
          /\ p.pos = N => (p.stdin = "pipe" /\ p.stdout = "inherit")

\* the three stages of `ls | cat | ls` are live, the middle one between two
\* pipes
C29_Witness ==
    /\ strategy = "piped" /\ Len(commands) = 3
    /\ \A i \in 1..3 : \E p \in pending : p.k = "proc" /\ p.mode = "piped" /\ p.pos = i
    /\ \E p \in pending : p.pos = 2 /\ p.stdin = "pipe" /\ p.stdout = "pipe"
                          /\ p.stderr = "inherit"

\* the places of the log holding a call of kind e
EventsOf(e) == {j \in 1..Len(events) : events[j].e = e}

\* C30: in a Concurrent-Piped run every pipe call comes behind the spawn of
\* every stage (a run that made a pipe call has spawned all N stages, each
\* once, before it); a run that did not abort, having spawned all N stages,
\* has made exactly the pipe calls from stage i to stage i+1 for i = 1..N-1,
\* each once, so that every live stage but the first reads its predecessor's
\* stdout; and the orchestrator holds no data of a piped stage: nothing is
\* written to a stage's stdin by it and no data listener collects output.
C30_SpawnAllThenSplice ==
    strategy = "piped" =>
       LET N == Len(commands) IN
       /\ \A j \in EventsOf("pipe") : \A k \in EventsOf("spawn") : k < j
       /\ EventsOf("pipe") # {} =>
             \A i \in 1..N : Cardinality({k \in EventsOf("spawn") : events[k].i = i}) = 1
       /\ Cardinality(EventsOf("spawn")) = N =>
             /\ \A i \in 1..(N - 1) :
                   Cardinality({j \in EventsOf("pipe") : events[j].i = i}) = 1
             /\ Cardinality(EventsOf("pipe")) = N - 1
             /\ \A p \in pending : (p.k = "proc" /\ p.pos > 1) => p.spliced
       /\ \A p \in pending :
             p.k = "proc" => (p.input = <<>> /\ p.output = <<>> /\ p.got = 0 /\ ~p.ended)

\* the three stages of `ls | cat | ls` were spawned, then spliced one into
\* the next
C30_Witness ==
    /\ strategy = "piped" /\ Len(commands) = 3
    /\ events = << [e |-> "spawn", i |-> 1], [e |-> "spawn", i |-> 2],
                   [e |-> "spawn", i |-> 3], [e |-> "pipe", i |-> 1],
                   [e |-> "pipe", i |-> 2] >>
    /\ \A i \in 1..3 : \E p \in pending : p.k = "proc" /\ p.pos = i

\* a Concurrent-Piped run aborted at an unresolved stage: the stages before
\* it are alive and no pipe was made
C30_Aborted ==
    /\ strategy = "piped" /\ EventsOf("spawn") # {} /\ EventsOf("pipe") = {}

\* a step of a Concurrent-Piped run behind the one that read the line
PipedStep == strategy = "piped" /\ lineNo' = lineNo

\* the step is the close event of the piped stage p
ClosesPiped(p) ==
    /\ p.k = "proc" /\ p.mode = "piped"
    /\ finished'[p.pos] = finished[p.pos] + 1
    /\ ~\E q \in pending' : q.id = p.id

\* a run of Concurrent-Piped signals at the close of its last stage only, also
\* with earlier stages alive, and the close of an earlier stage changes
\* neither the signals, nor the terminal, nor the shell
C31_LastCloseSignals ==
    [][ PipedStep =>
          /\ signals' # signals =>
                \E p \in pending : p.pos = Len(commands) /\ ClosesPiped(p)
          /\ \A p \in pending :
                (p.pos = Len(commands) /\ ClosesPiped(p)) => signals' = signals + 1
          /\ \A p \in pending :
                (p.pos < Len(commands) /\ ClosesPiped(p)) =>
                   (signals' = signals /\ out' = out /\ shell' = shell) ]_vars

\* C31: in a Concurrent-Piped run the completion signal is given by the
\* close event of the last stage alone, once, whether or not earlier stages
\* are still alive; the close of an earlier stage changes neither the
\* signals, nor the terminal, nor the shell; and while the only stages whose
\* spawn failed are earlier ones, no step changes the shell or sends the
\* terminal anything: the failure is not reported.
C31_OnlyLastStageSignals ==
    /\ C31_LastCloseSignals
    /\ [][ (PipedStep /\ (\E p \in pending : p.k = "proc" /\ p.failed)
                      /\ (\A p \in pending : (p.k = "proc" /\ p.failed) =>
                                                  p.pos < Len(commands))) =>
             (shell' = shell /\ out' = out) ]_vars

\* the last stage of `cat | ls` has closed and the run has signalled while
\* cat is still alive
C31_SignalledWithUpstreamAlive ==
    /\ strategy = "piped" /\ signals = 1 /\ shell = "prompt"
    /\ finished[Len(commands)] = 1
    /\ \E p \in pending : p.k = "proc" /\ p.mode = "piped" /\ p.pos = 1

\* the texts the builtin stage c can return, whatever it was handed
BuiltinTexts(c) ==
    CASE c[1] = "echo" -> { << Line("echo", SubSeq(c, 2, Len(c))) >> }
      [] c = <<"type", "ls">> ->
           { << Line("is", <<"ls", pathDirs[i]>>) >> :
                i \in {j \in 1..Len(pathDirs) : statSync(pathDirs[j], "ls") = "x"} }
           \cup { << Line("not found", <<"ls">>) >> }
      [] OTHER -> { <<>> }

IsBuiltinStage(c) ==
    c # <<>> /\ c[1] \in {"echo", "exit", "type", "pwd", "cd", "history"}

\* C32: in a Sequential-Relay run, an external stage behind a builtin stage
\* holds as its input a text of that builtin (the line of echo, the line of
\* type, nothing for pwd and history -a), never the output relayed to the
\* builtin; a builtin last stage sends the terminal its own text only; and a
\* step that hands the output of an external stage to the stages behind it
\* leaves the history and the working directory what they were, and the
\* files and lastAppendedIndex too when no stage is a history command.
C32_BuiltinIgnoresInput ==
    /\ [](strategy = "relay" =>
            /\ \A q \in pending :
                  (q.k = "proc" /\ q.pos > 1 /\ IsBuiltinStage(commands[q.pos - 1])) =>
                     q.input \in BuiltinTexts(commands[q.pos - 1])
            /\ \A wr \in BagToSet(out) :
                  (wr.by = "write" /\ wr.pos = Len(commands)
                     /\ IsBuiltinStage(commands[wr.pos])) =>
                     wr.text \in BuiltinTexts(commands[wr.pos]))
    /\ [][ (strategy = "relay" /\ lineNo' = lineNo) =>
             /\ commandHistory' = commandHistory /\ cwd' = cwd
             /\ (\A i \in 1..Len(commands) : At(commands[i], 1) # "history") =>
                   (files' = files /\ exists' = exists
                      /\ lastAppendedIndex' = lastAppendedIndex) ]_vars

\* ls has closed and handed its two lines to `echo hi`; cat, behind echo,
\* holds the line hi
C32_Witness ==
    /\ commands = << <<"ls">>, <<"echo", "hi">>, <<"cat">> >>
    /\ finished[1] = 1 /\ finished[2] = 1
    /\ \E q \in pending : q.k = "proc" /\ q.pos = 3 /\ q.input = << Line("echo", <<"hi">>) >>

\* C33: the stages of a line with k "|" tokens are k+1, they are the tokens
\* between the "|" tokens in order (joined by "|" they give the line back),
\* and none of them is empty.
C33_StagesNonEmpty ==
    commands # <<>> =>
       /\ Len(commands) = Cardinality({i \in 1..Len(cmdLine) : cmdLine[i] = "|"}) + 1
       /\ JoinStages(commands) = cmdLine
       /\ \A i \in 1..Len(commands) : commands[i] # <<>>

\* the count and the order of the stages alone
C33_StagesInOrder ==
    commands # <<>> =>
       /\ Len(commands) = Cardinality({i \in 1..Len(cmdLine) : cmdLine[i] = "|"}) + 1
       /\ JoinStages(commands) = cmdLine

\* C34: while a line holding a "|" token runs, its stages are all its
\* tokens, the redirection operators and their targets among them; every
\* live stage was handed the tokens behind its name as arguments, runs
\* under no redirection, and has its stdout as a pipe when it is not the
\* last; the file o named behind the operators does not come to exist; and
\* `echo hi > o`, as a stage, returns the line `hi > o`.
C34_NoRedirectionInPipeline ==
    (\E i \in 1..Len(cmdLine) : cmdLine[i] = "|") =>
       /\ commands # <<>> /\ JoinStages(commands) = cmdLine
       /\ "o" \notin exists /\ files["o"] = <<>>
       /\ \A p \in pending :
             p.k = "proc" =>
                /\ p.pos \in 1..Len(commands)
                /\ p.args = SubSeq(commands[p.pos], 2, Len(commands[p.pos]))
                /\ p.op = ""
                /\ p.pos < Len(commands) => p.stdout = "pipe"
                /\ (p.pos = 2 /\ commands[1] = <<"echo", "hi", ">", "o">>) =>
                      p.input = << Line("echo", <<"hi", ">", "o">>) >>
       /\ \A t \in pending : t.k = "fs" => t.op \notin {"write", "append"}

\* cat, behind `echo hi > o`, holds the line `hi > o`, and o does not exist
C34_Witness ==
    /\ cmdLine = <<"echo", "hi", ">", "o", "|", "cat">>
    /\ "o" \notin exists
    /\ \E p \in pending :
          p.k = "proc" /\ p.pos = 2 /\ p.input = << Line("echo", <<"hi", ">", "o">>) >>

\* C35: in the reactive version, once no stat call of the lookup behind a
\* `type ls` stage is pending, the lookup has emitted exactly one value (the
\* stage has completed once for its one start), and that value is the first
\* directory of PATH holding an executable ls, or null when none does: as
\* the last stage it has sent the terminal exactly the one line of ls.
C35_LookupEmitsOnce ==
    (impl = "rx" /\ strategy = "relay") =>
       \A pos \in 1..Len(commands) :
          (/\ commands[pos] = <<"type", "ls">> /\ started[pos] = 1
           /\ ~\E t \in pending : t.k = "stat" /\ t.pos = pos) =>
             /\ finished[pos] = 1
             /\ pos = Len(commands) =>
                   LET stage == [wr \in {x \in BagToSet(out) : x.pos = pos} |-> out[wr]] IN
                   /\ BagCardinality(stage) = 1
                   /\ Printed(stage) = TypeLine("ls")

\* what the builtin command c prints when it runs as a single command in
\* the present session state
SingleText(c) ==
    CASE c[1] = "echo" -> << Line("echo", SubSeq(c, 2, Len(c))) >>
      [] c[1] = "pwd" -> << Line("cwd", <<cwd>>) >>
      [] c = <<"type", "ls">> -> TypeLine("ls")
      [] OTHER -> <<>>

\* C36: in a Sequential-Relay run an external stage behind a builtin stage
\* holds as its input the text the builtin prints as a single command: the
\* line of echo, the working directory for pwd, the line of type, nothing
\* for history -a.
C36_StageTextIsSingleText ==
    strategy = "relay" =>
       \A q \in pending :
          (q.k = "proc" /\ q.pos > 1 /\ IsBuiltinStage(commands[q.pos - 1])) =>
             q.input = SingleText(commands[q.pos - 1])

\* C37: in every state 0 <= lastAppendedIndex <= the length of the history;
\* every step leaves the entries the history held in their places, adding
\* entries at its end only, and never lowers lastAppendedIndex.
C37_HistoryGrowsIndexBounded ==
    /\ [](0 <= lastAppendedIndex /\ lastAppendedIndex <= Len(commandHistory))
    /\ [][ /\ Len(commandHistory') >= Len(commandHistory)
           /\ SubSeq(commandHistory', 1, Len(commandHistory)) = commandHistory
           /\ lastAppendedIndex' >= lastAppendedIndex ]_vars

\* two entries were loaded at the start, `history -a f` moved the index from
\* 2 to 3, and `history -r f` then added entries behind the two typed lines
C37_Witness ==
    /\ HISTFILE = "f" /\ lastAppendedIndex = 3
    /\ Len(commandHistory) > 4
    /\ SubSeq(commandHistory, 1, 4) = << 101, 102, 1, 2 >>
    /\ cmdLine = <<"history", "-r", "f">>

\* C38: in main.ts and in the callback version a line has re-armed the
\* prompt once at most, whatever it was and however far it has run; a
\* step re-arms it once at most; and a pipeline run that has come to its end
\* (no stage alive, the shell not crashed) has re-armed it exactly once.
C38_PromptArmedOnce ==
    /\ [](impl \in {"main", "cb"} =>
            /\ signals <= 1
            /\ (strategy # "none" /\ pending = {} /\ shell # "crashed") =>
                  (signals = 1 /\ shell = "prompt"))
    /\ [][ (impl \in {"main", "cb"} /\ lineNo' = lineNo) =>
             signals' \in {signals, signals + 1} ]_vars

\* main.ts ran `ls | echo hi | cat` to its end through two close events and
\* re-armed the prompt once
C38_Witness ==
    /\ impl = "main" /\ commands = << <<"ls">>, <<"echo", "hi">>, <<"cat">> >>
    /\ \A i \in 1..3 : finished[i] = 1
    /\ pending = {} /\ signals = 1 /\ shell = "prompt"

\* C39: in a Sequential-Relay run of the reactive version every stage is
\* launched once at most and the run hands its subscriber one value at
\* most, whatever number of values the lookup behind a `type` stage emits.
C39_StageLaunchedOnce ==
    (impl = "rx" /\ strategy = "relay") =>
        /\ \A pos \in 1..Len(commands) : started[pos] <= 1
        /\ signals <= 1

\* the same run with a single PATH directory holding ls: the claim's case
\* without the second emission
C39_SingleMatch ==
    /\ impl = "rx" /\ strategy = "relay"
    /\ commands = << <<"type", "ls">>, <<"ls">> >>
    /\ started[1] = 1 /\ started[2] = 1 /\ finished[1] = 1

\* the builtins other than echo that the sessions run with a redirection
RedirectedBuiltins ==
    { l \in FileLastLines :
        /\ l[1] \in {"pwd", "cd", "type", "history"}
        /\ \E i \in 1..Len(l) : l[i] \in RedirectOps }

====
